---- MODULE Spec2Model ----
(***************************************************************************)
(* Model of the AutoResearch pipeline: AutoResearchAgent.research and the  *)
(* services it drives (SearchService, ContentExtractionService, the report *)
(* assembler and ReportGenerationService).                                 *)
(*                                                                         *)
(* Text is modelled as sequences of tokens: a query is the sequence of its *)
(* words, a URL the sequence of its segments, a model response a sequence  *)
(* of lines, each a sequence of tokens.                                    *)
(***************************************************************************)
EXTENDS Integers, Sequences, FiniteSets, TLC

VARIABLES
  pc,               \* position of research() in its step list, or Idle/Complete/Error
  researchTopic,    \* the ResearchTopic argument
  config,           \* the process configuration read by the pipeline
  progressCallback, \* TRUE when a progress callback was given to the constructor
  log,              \* history: notifications delivered and stages begun/ended
  queries,          \* result of step 1
  searchResults,    \* result of step 2
  extractedContent, \* result of step 3
  analysis,         \* result of step 4
  report,           \* result of step 5
  outputPaths,      \* result of step 6: the files written, with their content
  thrown,           \* the error research() rethrew, or NoError
  ex,               \* the running extractMultiple call
  asm,              \* the running generateReport call
  calls,            \* external requests issued so far
  env,              \* history: what the search backends and the file writes answered
  fin,              \* arguments of the service call under test
  fout,             \* its result
  bot,              \* TelegramBotHandler: sessions, research runs, messages sent
  tg                \* TelegramBot: currentCtx, research runs, progress replies

vars == <<pc, researchTopic, config, progressCallback, log, queries,
          searchResults, extractedContent, analysis, report, outputPaths,
          thrown, ex, asm, calls, env, fin, fout, bot, tg>>

pipeVars == <<pc, researchTopic, config, progressCallback, log, queries,
              searchResults, extractedContent, analysis, report, outputPaths,
              thrown, asm, calls, env, bot, tg>>

fnVars == <<fin, fout, bot, tg>>

----------------------------------------------------------------------------
(* Bounds of the model *)

\* longest JSON array the query-generation model returns
MaxArr == 4

----------------------------------------------------------------------------
(* Generic helpers *)

Range(s) == {s[i] : i \in 1..Len(s)}

Min(a, b) == IF a < b THEN a ELSE b

\* Array.prototype.slice(0, n)
Slice(s, n) == SubSeq(s, 1, Min(n, Len(s)))

\* all sequences over S of length 0..n
SeqsUpTo(S, n) == UNION {[1..k -> S] : k \in 0..n}

None == "none"
Idle == [op |-> "idle"]
NoError == "no error"

----------------------------------------------------------------------------
(* Step 1: query generation *)

Topics == {"solar", "wind"}
Depths == {"basic", "intermediate", "comprehensive", "undefined"}

\* a JSON value used as a query: a string (its words) or a non-string
Str(words) == [type |-> "string", words |-> words]
NonString == [type |-> "number", words |-> <<>>]

\* elements the model may put in its JSON array: query strings, the empty
\* string, and a non-string value
QueryItems == {Str(<<"solar", "panels">>), Str(<<"grid">>), Str(<<>>), NonString}

\* what runner.ask(prompt) raced against the 15 s timer yields
QueryOutcomes ==
  {[kind |-> "timeout"], [kind |-> "error"]}
  \cup {[kind |-> "text", fenced |-> f, json |-> j] :
          f \in BOOLEAN,
          j \in {[type |-> "malformed"], [type |-> "object"], [type |-> "null"],
                 [type |-> "string"]}}
  \cup {[kind |-> "text", fenced |-> f, json |-> [type |-> "array", items |-> a]] :
          f \in BOOLEAN, a \in SeqsUpTo(QueryItems, MaxArr)}

\* response.replace(/```json\n?/g, '').replace(/```\n?/g, '').trim()
StripFences(text) == [text EXCEPT !.fenced = FALSE]

\* a JSON.parse that accepts every text
JsonParseLenient(text) == [threw |-> FALSE, value |-> text.json]

\* JSON.parse: a value, or a SyntaxError for fenced or malformed text
JsonParse(text) ==
  IF text.fenced \/ text.json.type = "malformed"
  THEN [threw |-> TRUE]
  ELSE [threw |-> FALSE, value |-> text.json]

\* selectModel(): the first configured provider, or an error
SelectModel(cfg) ==
  IF cfg.geminiApiKey THEN [threw |-> FALSE, model |-> "gemini-1.5-flash"]
  ELSE IF cfg.openaiApiKey THEN [threw |-> FALSE, model |-> "gpt-4o"]
  ELSE IF cfg.anthropicApiKey THEN [threw |-> FALSE, model |-> "claude-3-5-sonnet"]
  ELSE [threw |-> TRUE, error |-> "No AI provider configured"]

QueryCount(depth) ==
  IF depth = "comprehensive" THEN 7 ELSE IF depth = "basic" THEN 3 ELSE 5

\* SearchService.generateSearchQueries: the template generator
TemplateSuffixes(depth) ==
  CASE depth = "basic" ->
         <<"overview", "introduction", "academic research">>
    [] depth = "intermediate" ->
         <<"overview", "key concepts", "research papers",
           "recent developments", "scholarly articles">>
    [] depth = "comprehensive" ->
         <<"comprehensive guide", "research papers", "peer-reviewed studies",
           "case studies", "latest trends", "expert analysis",
           "statistics and data", "literature review", "methodology">>
    [] OTHER -> <<>>

TemplateQueries(topic, depth) ==
  LET suffixes == TemplateSuffixes(depth)
  IN  <<Str(<<topic>>)>> \o [i \in 1..Len(suffixes) |-> Str(<<topic, suffixes[i]>>)]

\* researchTopic.depth || 'intermediate'
DepthOrDefault(depth) == IF depth = "undefined" THEN "intermediate" ELSE depth

\* AutoResearchAgent.generateSearchQueries without its catch block: an
\* error of the model call or of JSON.parse escapes
GenerateSearchQueriesNoCatch(topic, depth, cfg, outcome) ==
  LET fallback == TemplateQueries(topic, DepthOrDefault(depth))
      model    == SelectModel(cfg)
  IN  IF model.threw
      THEN [threw |-> TRUE, value |-> <<>>, path |-> "error", llm |-> 0]
      ELSE IF outcome.kind # "text"
      THEN [threw |-> TRUE, value |-> <<>>, path |-> "error", llm |-> 1]
      ELSE LET parsed == JsonParse(StripFences(outcome))
           IN  IF parsed.threw
               THEN [threw |-> TRUE, value |-> <<>>, path |-> "error", llm |-> 1]
               ELSE IF parsed.value.type = "array" /\ Len(parsed.value.items) > 0
               THEN [threw |-> FALSE,
                     value |-> Slice(parsed.value.items, QueryCount(depth)),
                     path |-> "model", llm |-> 1]
               ELSE [threw |-> FALSE, value |-> fallback, path |-> "fallback",
                     llm |-> 1]

\* AutoResearchAgent.generateSearchQueries
\* returns [threw, value, path, llm]: the queries, the path taken, and the
\* number of model requests issued
GenerateSearchQueries(topic, depth, cfg, outcome) ==
  LET fallback == TemplateQueries(topic, DepthOrDefault(depth))
      model    == SelectModel(cfg)
  IN  IF model.threw
      THEN [threw |-> FALSE, value |-> fallback, path |-> "fallback", llm |-> 0]
      ELSE IF outcome.kind # "text"
      THEN [threw |-> FALSE, value |-> fallback, path |-> "fallback", llm |-> 1]
      ELSE LET parsed == JsonParse(StripFences(outcome))
           IN  IF ~parsed.threw /\ parsed.value.type = "array"
                  /\ Len(parsed.value.items) > 0
               THEN [threw |-> FALSE,
                     value |-> Slice(parsed.value.items, QueryCount(depth)),
                     path |-> "model", llm |-> 1]
               ELSE [threw |-> FALSE, value |-> fallback, path |-> "fallback",
                     llm |-> 1]

----------------------------------------------------------------------------
(* Step 2: SearchService.search *)

\* the case-sensitive tokens URLs are made of, and their lower-case forms
Lower(tok) ==
  CASE tok = "SITE" -> "site"
    [] tok = ".EDU" -> ".edu"
    [] tok = "Page" -> "page"
    [] OTHER -> tok

ToLowerCase(url) == [i \in 1..Len(url) |-> Lower(url[i])]

\* String.prototype.includes on a URL: the needle is one of its tokens
Includes(url, needle) == needle \in Range(url)

\* item.url.toLowerCase().replace(/\/$/, '')
Normalize(url) ==
  LET low == ToLowerCase(url)
  IN  IF Len(low) > 0 /\ low[Len(low)] = "/" THEN SubSeq(low, 1, Len(low) - 1)
      ELSE low

\* URLs the backends may return
WebUrls == {<<"site", ".edu">>, <<"SITE", ".EDU", "/">>, <<"news", ".gov", "/", "/">>}
WikiUrls == {<<"wikipedia.org", "/", "Page">>, <<"wikipedia.org", "/", "page", "/">>}
ScholarUrls == {<<"semanticscholar.org">>, <<"site", ".edu", "/">>}
Snippets == {"plain", "journal"}

\* the relevanceScore each backend assigns to its results
WebScore == 3
WikiScore == 5
ScholarScore == 10

SearchResultOf(url, snippet, score) ==
  [url |-> url, snippet |-> snippet, relevanceScore |-> score]

\* longest result list of the web backend and of an academic backend
MaxWebResults == 2
MaxAcademicResults == 1
\* largest result budget passed to search()
MaxBudget == 2

Settled(Results, n) ==
  {[status |-> "rejected"]}
  \cup {[status |-> "fulfilled", value |-> v] : v \in SeqsUpTo(Results, n)}

WebOutcomes ==
  Settled({SearchResultOf(u, s, WebScore) : u \in WebUrls, s \in Snippets},
          MaxWebResults)
WikiOutcomes ==
  Settled({SearchResultOf(u, "plain", WikiScore) : u \in WikiUrls},
          MaxAcademicResults)
ScholarOutcomes ==
  Settled({SearchResultOf(u, s, ScholarScore) : u \in ScholarUrls, s \in Snippets},
          MaxAcademicResults)

\* the web backend search() calls: the first configured of Serper, Brave,
\* Google (which needs both its key and its cx), or none
WebBackend(cfg) ==
  IF cfg.serperApiKey THEN "serper"
  ELSE IF cfg.braveApiKey THEN "brave"
  ELSE IF cfg.googleSearchApiKey /\ cfg.googleSearchCx THEN "google"
  ELSE None

\* the backends of one search() call, in the order their promises are pushed
SearchPromises(cfg) ==
  (IF WebBackend(cfg) = None THEN <<>> ELSE <<WebBackend(cfg)>>)
  \o <<"wikipedia", "semanticscholar">>

\* the boost of prioritizeAndDeduplicate
Boost(result) ==
  (IF Includes(result.url, "arxiv.org") THEN 10 ELSE 0)
  + (IF Includes(result.url, "semanticscholar.org") THEN 10 ELSE 0)
  + (IF Includes(result.url, "doi.org") \/ Includes(result.url, "crossref.org")
     THEN 10 ELSE 0)
  + (IF Includes(result.url, "wikipedia.org") THEN 5 ELSE 0)
  + (IF Includes(result.url, ".edu") THEN 7 ELSE 0)
  + (IF Includes(result.url, ".gov") THEN 6 ELSE 0)
  + (IF result.snippet = "journal" THEN 5 ELSE 0)

Scored(results) ==
  [i \in 1..Len(results) |->
     [results[i] EXCEPT !.relevanceScore = results[i].relevanceScore + Boost(results[i])]]

\* Array.prototype.sort with (a, b) => b.relevanceScore - a.relevanceScore:
\* a stable sort, descending
RECURSIVE InsertByScore(_, _)
InsertByScore(sorted, r) ==
  IF sorted = <<>> THEN <<r>>
  ELSE IF Head(sorted).relevanceScore >= r.relevanceScore
       THEN <<Head(sorted)>> \o InsertByScore(Tail(sorted), r)
       ELSE <<r>> \o sorted

RECURSIVE SortByScore(_)
SortByScore(results) ==
  IF results = <<>> THEN <<>>
  ELSE InsertByScore(SortByScore(SubSeq(results, 1, Len(results) - 1)),
                     results[Len(results)])

\* removeDuplicates comparing the URLs as written
RECURSIVE RemoveDuplicatesRawFrom(_, _)
RemoveDuplicatesRawFrom(items, seen) ==
  IF items = <<>> THEN <<>>
  ELSE IF Head(items).url \in seen
       THEN RemoveDuplicatesRawFrom(Tail(items), seen)
       ELSE <<Head(items)>>
            \o RemoveDuplicatesRawFrom(Tail(items), seen \cup {Head(items).url})

RemoveDuplicatesRaw(items) == RemoveDuplicatesRawFrom(items, {})

\* utils removeDuplicates: keep the first item of each normalized URL
RECURSIVE RemoveDuplicatesFrom(_, _)
RemoveDuplicatesFrom(items, seen) ==
  IF items = <<>> THEN <<>>
  ELSE LET normalized == Normalize(Head(items).url)
       IN  IF normalized \in seen
           THEN RemoveDuplicatesFrom(Tail(items), seen)
           ELSE <<Head(items)>>
                \o RemoveDuplicatesFrom(Tail(items), seen \cup {normalized})

RemoveDuplicates(items) == RemoveDuplicatesFrom(items, {})

\* prioritizeAndDeduplicate removing the duplicates before it sorts
DeduplicateThenPrioritize(results, maxResults) ==
  Slice(SortByScore(RemoveDuplicates(Scored(results))), maxResults)

\* SearchService.prioritizeAndDeduplicate
PrioritizeAndDeduplicate(results, maxResults) ==
  Slice(RemoveDuplicates(SortByScore(Scored(results))), maxResults)

\* Promise.all in place of Promise.allSettled: one rejection rejects the lot
CombineFailFast(outcomes) ==
  IF \E i \in 1..Len(outcomes) : outcomes[i].status = "rejected"
  THEN [threw |-> TRUE, value |-> <<>>]
  ELSE [threw |-> FALSE,
        value |-> IF Len(outcomes) = 2
                  THEN outcomes[1].value \o outcomes[2].value
                  ELSE outcomes[1].value \o outcomes[2].value \o outcomes[3].value]

\* Promise.allSettled followed by the forEach that pushes every fulfilled,
\* non-empty value: a rejected promise adds nothing
RECURSIVE CombineSettled(_)
CombineSettled(outcomes) ==
  IF outcomes = <<>> THEN [threw |-> FALSE, value |-> <<>>]
  ELSE LET rest == CombineSettled(Tail(outcomes))
       IN  IF Head(outcomes).status = "fulfilled" /\ Len(Head(outcomes).value) > 0
           THEN [rest EXCEPT !.value = Head(outcomes).value \o @]
           ELSE rest

\* the try block of search(): outcomes[i] is the settled promise of
\* SearchPromises(cfg)[i]
SearchBody(outcomes, maxResults) ==
  LET combined == CombineSettled(outcomes)
  IN  IF combined.threw
      THEN [threw |-> TRUE, error |-> "backend error"]
      ELSE IF Len(combined.value) = 0
      THEN [threw |-> TRUE, error |-> "No search results from any source"]
      ELSE [threw |-> FALSE, success |-> TRUE,
            data |-> PrioritizeAndDeduplicate(combined.value, maxResults),
            error |-> None]

\* search() without its catch block
SearchNoCatch(outcomes, maxResults) == SearchBody(outcomes, maxResults)

\* SearchService.search: the try block and its catch
Search(outcomes, maxResults) ==
  LET body == SearchBody(outcomes, maxResults)
  IN  IF body.threw
      THEN [threw |-> FALSE, success |-> FALSE, data |-> <<>>, error |-> body.error]
      ELSE body

\* the settled promises search() may see under a configuration
OutcomesOf(cfg) ==
  {(IF WebBackend(cfg) = None THEN <<>> ELSE <<w>>) \o <<k, s>> :
     w \in WebOutcomes, k \in WikiOutcomes, s \in ScholarOutcomes}

\* configurations of the search keys
SearchConfigs ==
  {[serperApiKey |-> a, braveApiKey |-> b, googleSearchApiKey |-> g,
    googleSearchCx |-> g] :
     a \in BOOLEAN, b \in {FALSE}, g \in BOOLEAN}

----------------------------------------------------------------------------
(* Step 3: ContentExtractionService *)

\* the defaults of retryWithBackoff: maxRetries and initialDelay (ms)
DefaultMaxRetries == 3
InitialDelay == 500

\* initialDelay * Math.pow(1.5, i), for the i the loop can reach
DelayMs(i) == (InitialDelay * 3 ^ i) \div 2 ^ i

\* utils retryWithBackoff: attempts[i] is what the i-th call of fn yields;
\* returns the first success among the first maxRetries calls, or throws
\* the last error; tries counts the calls made, delays the waits between them
RECURSIVE RetryFrom(_, _, _, _)
RetryFrom(attempts, maxRetries, i, delays) ==
  IF i > maxRetries \/ i > Len(attempts)
  THEN [threw |-> TRUE, tries |-> i - 1, delays |-> delays,
        error |-> IF i > 1 THEN attempts[i - 1] ELSE [ok |-> FALSE]]
  ELSE IF attempts[i].ok
       THEN [threw |-> FALSE, value |-> attempts[i], tries |-> i, delays |-> delays]
       ELSE RetryFrom(attempts, maxRetries, i + 1,
                      IF i < maxRetries THEN Append(delays, DelayMs(i - 1))
                                        ELSE delays)

RetryWithBackoff(attempts, maxRetries) == RetryFrom(attempts, maxRetries, 1, <<>>)

\* the maxRetries argument extractContent passes to retryWithBackoff
ExtractMaxRetries == 1
\* content.substring(0, 50000)
MaxContentChars == 50000
\* extractMultiple keeps content.length > 100
MinContentChars == 100
\* AutoResearchAgent.extractContent keeps wordCount >= 50
MinWordCount == 50
\* the concurrency AutoResearchAgent.extractContent asks for
PipelineConcurrency == 10

\* a fetched page: the length of its cleaned main text and its word count
Page(len, words) == [ok |-> TRUE, len |-> len, words |-> words]
FetchError == [ok |-> FALSE, len |-> 0, words |-> 0]

\* what the successive GET requests of one URL yield
FetchWorlds ==
  {<<FetchError, FetchError>>,
   <<FetchError, Page(600, 90)>>,
   <<Page(40, 8), Page(40, 8)>>,
   <<Page(100, 50), Page(100, 50)>>,
   <<Page(101, 20), Page(101, 20)>>,
   <<Page(600, 90), Page(600, 90)>>,
   <<Page(60000, 9000), Page(60000, 9000)>>}

\* URLs fetched as a step of research() answer with an error, a short page
\* or a long page
PipelineFetchWorlds ==
  {<<FetchError, FetchError>>, <<Page(101, 20), Page(101, 20)>>,
   <<Page(600, 90), Page(600, 90)>>}

\* ContentExtractionService.parseHtml
ParseHtml(page, url) ==
  [url |-> url, title |-> "title",
   content |-> [length |-> Min(page.len, MaxContentChars)],
   metadata |-> [wordCount |-> page.words]]

\* the catch block of extractContent: partial data instead of an error
Placeholder(url) ==
  [url |-> url, title |-> url, content |-> [length |-> 0],
   metadata |-> [wordCount |-> 0]]

\* ContentExtractionService.extractContent
ExtractContent(url, attempts) ==
  LET fetched == RetryWithBackoff(attempts, ExtractMaxRetries)
  IN  IF fetched.threw
      THEN [threw |-> FALSE, success |-> FALSE, data |-> Placeholder(url),
            tries |-> fetched.tries]
      ELSE [threw |-> FALSE, success |-> TRUE,
            data |-> ParseHtml(fetched.value, url), tries |-> fetched.tries]

\* AutoResearchAgent.extractContent: content.filter(c => c.metadata.wordCount >= 50)
FilterByWordCount(content) ==
  SelectSeq(content, LAMBDA c : c.metadata.wordCount >= MinWordCount)

\* every URL not yet started, whatever the window
BatchOfRest(i, n, maxConcurrent) == (i + 1)..n

\* indexes of the batch that starts after the first i URLs
BatchOf(i, n, maxConcurrent) == (i + 1)..Min(i + maxConcurrent, n)

\* extractMultiple's filter chain without the content-length threshold
KeepOfBatchAll(slots, batch) ==
  LET RECURSIVE Keep(_)
      Keep(k) ==
        IF k \notin batch THEN <<>>
        ELSE (IF slots[k].success THEN <<slots[k].data>> ELSE <<>>) \o Keep(k + 1)
  IN  IF batch = {} THEN <<>>
      ELSE Keep(CHOOSE k \in batch : \A j \in batch : k <= j)

\* the survivors of a batch pushed in the order their fetches completed
KeepOfBatchAsSettled(slots, batch) ==
  LET done == SelectSeq(ex.settled,
                        LAMBDA k : /\ k \in batch /\ slots[k].success
                                   /\ slots[k].data.content.length > MinContentChars)
  IN  [i \in 1..Len(done) |-> slots[done[i]].data]

\* .filter(r => r.success && r.data).map(r => r.data)
\*   .filter(c => c.content.length > 100), in batch order
KeepOfBatch(slots, batch) ==
  LET RECURSIVE Keep(_)
      Keep(k) ==
        IF k \notin batch THEN <<>>
        ELSE (IF slots[k].success /\ slots[k].data.content.length > MinContentChars
              THEN <<slots[k].data>> ELSE <<>>) \o Keep(k + 1)
  IN  IF batch = {} THEN <<>>
      ELSE Keep(CHOOSE k \in batch : \A j \in batch : k <= j)

\* extractMultiple(urls, maxConcurrent) is entered
ExtractCall(urls, maxConcurrent) ==
  [op |-> "extractMultiple", urls |-> urls, maxConcurrent |-> maxConcurrent,
   phase |-> "loop", i |-> 0, pending |-> {},
   slots |-> [k \in {} |-> Idle], world |-> [k \in {} |-> <<>>],
   settled |-> <<>>, results |-> <<>>]

ExRunning == ex # Idle /\ ex.op = "extractMultiple"

\* everything an extractMultiple step leaves alone
exOther == <<pc, researchTopic, config, progressCallback, log, queries,
             searchResults, extractedContent, analysis, report, outputPaths,
             thrown, asm, env, fin, fout, bot, tg>>

\* the for loop takes the next batch and starts all its extractContent calls
ExStartBatch ==
  /\ ExRunning /\ ex.phase = "loop" /\ ex.i < Len(ex.urls)
  /\ ex' = [ex EXCEPT !.phase = "await",
                      !.pending = BatchOf(ex.i, Len(ex.urls), ex.maxConcurrent)]
  /\ UNCHANGED <<calls, exOther>>

\* one extractContent call of the batch settles
ExSettle ==
  /\ ExRunning /\ ex.phase = "await"
  /\ \E k \in ex.pending,
        w \in (IF pc = "Idle" THEN FetchWorlds ELSE PipelineFetchWorlds) :
       LET r == ExtractContent(ex.urls[k], w)
       IN  /\ ex' = [ex EXCEPT !.pending = @ \ {k},
                               !.slots = (k :> r) @@ @,
                               !.world = (k :> w) @@ @,
                               !.settled = Append(@, k)]
           /\ calls' = [calls EXCEPT !.fetch = @ + r.tries]
  /\ UNCHANGED exOther

\* Promise.all resolves: the batch's survivors are pushed in batch order
ExCollect ==
  /\ ExRunning /\ ex.phase = "await" /\ ex.pending = {}
  /\ ex' = [ex EXCEPT
              !.phase = "loop",
              !.results = @ \o KeepOfBatch(ex.slots,
                                BatchOf(ex.i, Len(ex.urls), ex.maxConcurrent)),
              !.i = @ + ex.maxConcurrent]
  /\ UNCHANGED <<calls, exOther>>

\* the loop is over: extractMultiple returns results
ExReturn ==
  /\ ExRunning /\ ex.phase = "loop" /\ ex.i >= Len(ex.urls)
  /\ ex' = [ex EXCEPT !.phase = "returned"]
  /\ UNCHANGED <<calls, exOther>>

----------------------------------------------------------------------------
(* Step 4: analyzeContent *)

\* analysis.length > 100
MinAnalysisChars == 100

\* what runner.ask(prompt) raced against the 30 s timer yields: the length of
\* the text, or no text
AnalysisOutcomes ==
  {[kind |-> "timeout", length |-> 0], [kind |-> "error", length |-> 0],
   [kind |-> "text", length |-> 0], [kind |-> "text", length |-> 100],
   [kind |-> "text", length |-> 101]}

Titles(content) == [i \in 1..Len(content) |-> content[i].title]

\* analyzeContent without its catch block and its timer: an error of
\* selectModel or of the model call escapes
AnalyzeContentNoCatch(topic, content, cfg, outcome) ==
  LET fallback == [threw |-> FALSE, source |-> "fallback", topic |-> topic,
                   count |-> Len(content), titles |-> Slice(Titles(content), 3)]
  IN  IF SelectModel(cfg).threw
      THEN [threw |-> TRUE, source |-> "error", topic |-> topic, count |-> 0,
            titles |-> <<>>, llm |-> 0]
      ELSE IF outcome.kind # "text"
      THEN [threw |-> TRUE, source |-> "error", topic |-> topic, count |-> 0,
            titles |-> <<>>, llm |-> 1]
      ELSE IF outcome.length > MinAnalysisChars
      THEN [threw |-> FALSE, source |-> "model", topic |-> topic,
            count |-> Len(content), titles |-> <<>>, llm |-> 1]
      ELSE fallback @@ [llm |-> 1]

\* AutoResearchAgent.analyzeContent
AnalyzeContent(topic, content, cfg, outcome) ==
  LET fallback == [threw |-> FALSE, source |-> "fallback", topic |-> topic,
                   count |-> Len(content), titles |-> Slice(Titles(content), 3)]
  IN  IF SelectModel(cfg).threw THEN fallback @@ [llm |-> 0]
      ELSE IF outcome.kind = "text" /\ outcome.length > MinAnalysisChars
      THEN [threw |-> FALSE, source |-> "model", topic |-> topic,
            count |-> Len(content), titles |-> <<>>, llm |-> 1]
      ELSE fallback @@ [llm |-> 1]

----------------------------------------------------------------------------
(* Step 5: generateReport, the report assembler *)

\* A text is the sequence of its lines (text.split('\n')), a line the
\* sequence of its tokens; the empty string is one empty line.
EmptyText == << <<>> >>
Blank == " "

CitationMarkers == {"[0]", "[1]", "[2]", "[3]"}

\* parseInt of the digits between the brackets
MarkerNumber(tok) ==
  CASE tok = "[0]" -> 0 [] tok = "[1]" -> 1 [] tok = "[2]" -> 2 [] tok = "[3]" -> 3

AbstractWords == {"Abstract", "ABSTRACT", "abstract", "Executive Summary"}
UpperWords == {"INTRODUCTION", "FINDINGS", "ABSTRACT"}
NumberDot == "1."

\* number of characters of a token, a line and a text
TokLen(tok) ==
  CASE tok = "##" -> 2 [] tok = "###" -> 3 [] tok = "#" -> 1 [] tok = "." -> 1
    [] tok = NumberDot -> 2 [] tok = "A." -> 2 [] tok = Blank -> 1
    [] tok \in CitationMarkers -> 3
    [] tok = "INTRODUCTION" -> 12
    [] OTHER -> 8

RECURSIVE LineLen(_)
LineLen(line) ==
  IF line = <<>> THEN 0
  ELSE TokLen(Head(line)) + (IF Len(line) > 1 THEN 1 ELSE 0) + LineLen(Tail(line))

RECURSIVE TextLen(_)
TextLen(text) ==
  IF text = <<>> THEN 0
  ELSE LineLen(Head(text)) + (IF Len(text) > 1 THEN 1 ELSE 0) + TextLen(Tail(text))

\* text.substring(0, n); a longer text is cut at the last line that fits
RECURSIVE Substring(_, _)
Substring(text, n) ==
  IF TextLen(text) <= n THEN text
  ELSE IF Len(text) <= 1 THEN EmptyText
  ELSE Substring(SubSeq(text, 1, Len(text) - 1), n)

\* summary fallbacks take the first 500 characters
SummaryChars == 500

\* line.trim()
Trim(line) == SelectSeq(line, LAMBDA tok : tok # Blank)

\* AutoResearchAgent.extractCitations on one line: the ids of its [n] markers
ExtractCitationsOfLine(line) ==
  LET marks == SelectSeq(line, LAMBDA tok : tok \in CitationMarkers)
  IN  [i \in 1..Len(marks) |-> <<"cit", MarkerNumber(marks[i])>>]

\* AutoResearchAgent.extractCitations on a text
RECURSIVE ExtractCitations(_)
ExtractCitations(text) ==
  IF text = <<>> THEN <<>>
  ELSE ExtractCitationsOfLine(Head(text)) \o ExtractCitations(Tail(text))

\* [...new Set(items)]: first occurrences, in order
RECURSIVE Unique(_)
Unique(items) ==
  IF items = <<>> THEN <<>>
  ELSE LET front == Unique(SubSeq(items, 1, Len(items) - 1))
           last  == items[Len(items)]
       IN  IF last \in Range(front) THEN front ELSE Append(front, last)

\* citations that all carry the id of the first one
CitationsSameId(extracted) ==
  [i \in 1..Len(extracted) |->
     [id |-> <<"cit", 1>>, title |-> extracted[i].title, url |-> extracted[i].url]]

\* the citations generateReport and generateFallbackReport derive from the
\* extracted content
CitationsOf(extracted) ==
  [i \in 1..Len(extracted) |->
     [id |-> <<"cit", i>>, title |-> extracted[i].title, url |-> extracted[i].url]]

\* trimmedLine.toLowerCase().includes('abstract') || ...includes('executive summary')
MentionsAbstract(line) == \E i \in 1..Len(line) : line[i] \in AbstractWords

\* /^#{2}\s*\d*\.?\s*(.+)/ and /^\d+\.\s+([A-Z\s]+)$/ on a trimmed line:
\* [match, title]
MainHeaderMatch(line) ==
  IF Len(line) >= 1 /\ line[1] = "###"
  THEN [match |-> TRUE, title |-> <<"#">> \o Tail(line)]
  ELSE IF Len(line) >= 2 /\ line[1] = "##"
  THEN IF line[2] = NumberDot
       THEN [match |-> TRUE,
             title |-> IF Len(line) > 2 THEN SubSeq(line, 3, Len(line)) ELSE <<".">>]
       ELSE [match |-> TRUE, title |-> Tail(line)]
  ELSE IF Len(line) >= 2 /\ line[1] = NumberDot
          /\ \A i \in 2..Len(line) : line[i] \in UpperWords
  THEN [match |-> TRUE, title |-> Tail(line)]
  ELSE [match |-> FALSE, title |-> <<>>]

NoSection == [title |-> <<"no section">>, content |-> <<>>, citations |-> <<>>,
              open |-> FALSE]

\* the state of parseReportResponse's loop
ParseStart ==
  [sections |-> <<>>, currentSection |-> NoSection, abstract |-> <<>>,
   inAbstract |-> FALSE]

Closed(section) ==
  [title |-> section.title, content |-> section.content,
   citations |-> section.citations]

\* one iteration of the loop over the lines
ParseLine(st, line) ==
  LET trimmedLine == Trim(line)
      header      == MainHeaderMatch(trimmedLine)
  IN  IF MentionsAbstract(trimmedLine)
      THEN [st EXCEPT !.inAbstract = TRUE]
      ELSE IF header.match
      THEN [st EXCEPT
              !.sections = IF st.currentSection.open
                           THEN Append(@, Closed(st.currentSection)) ELSE @,
              !.currentSection = [title |-> header.title, content |-> <<>>,
                                  citations |-> <<>>, open |-> TRUE],
              !.inAbstract = FALSE]
      ELSE IF trimmedLine = <<>> THEN st
      ELSE IF st.inAbstract /\ Len(st.sections) = 0
      THEN [st EXCEPT !.abstract = Append(@, line)]
      ELSE IF st.currentSection.open
      THEN [st EXCEPT
              !.currentSection.content = Append(@, line),
              !.currentSection.citations =
                 Unique(@ \o ExtractCitationsOfLine(line))]
      ELSE st

RECURSIVE ParseLines(_, _)
ParseLines(st, lines) ==
  IF lines = <<>> THEN st ELSE ParseLines(ParseLine(st, Head(lines)), Tail(lines))

\* parseReportResponse without the Overview section for a response that
\* opened no section
ParseReportResponseNoOverview(response, topic, citations) ==
  LET st == ParseLines(ParseStart, response)
  IN  [topic |-> topic,
       summary |-> IF st.abstract # <<>> THEN st.abstract
                   ELSE Substring(response, SummaryChars),
       sections |-> IF st.currentSection.open
                    THEN Append(st.sections, Closed(st.currentSection))
                    ELSE st.sections,
       citations |-> citations]

\* AutoResearchAgent.parseReportResponse
ParseReportResponse(response, topic, citations) ==
  LET st       == ParseLines(ParseStart, response)
      pushed   == IF st.currentSection.open
                  THEN Append(st.sections, Closed(st.currentSection))
                  ELSE st.sections
      sections == IF Len(pushed) = 0
                  THEN <<[title |-> <<"Overview">>, content |-> response,
                          citations |-> ExtractCitations(response)]>>
                  ELSE pushed
  IN  [topic |-> topic,
       summary |-> IF st.abstract # <<>> THEN st.abstract
                   ELSE Substring(response, SummaryChars),
       sections |-> sections,
       citations |-> citations]

LetterDot == "A."

\* /^#{3,}\s*(.+)/ and /^[A-Z]\.\s+(.+)/ on a trimmed line: [match, title]
SubHeaderMatch(line) ==
  IF Len(line) >= 2 /\ line[1] \in {"###", LetterDot}
  THEN [match |-> TRUE, title |-> Tail(line)]
  ELSE [match |-> FALSE, title |-> <<>>]

\* the state of parseAcademicReportResponse's loop; a section carries the
\* subsections pushed to it
AcademicStart ==
  [sections |-> <<>>,
   currentSection |-> [title |-> <<"no section">>, content |-> <<>>,
                       citations |-> <<>>, subsections |-> <<>>, open |-> FALSE],
   currentSubsection |-> NoSection, abstract |-> <<>>, inAbstract |-> FALSE]

\* the current section, with the current subsection pushed to it if there is one
WithSubsection(st) ==
  [title |-> st.currentSection.title, content |-> st.currentSection.content,
   citations |-> st.currentSection.citations,
   subsections |-> IF st.currentSubsection.open
                   THEN Append(st.currentSection.subsections,
                               Closed(st.currentSubsection))
                   ELSE st.currentSection.subsections]

\* one iteration of parseAcademicReportResponse's loop over the lines
ParseAcademicLine(st, line) ==
  LET trimmedLine == Trim(line)
      header      == MainHeaderMatch(trimmedLine)
      subHeader   == SubHeaderMatch(trimmedLine)
  IN  IF MentionsAbstract(trimmedLine)
      THEN [st EXCEPT !.inAbstract = TRUE]
      ELSE IF header.match
      THEN [st EXCEPT
              !.sections = IF st.currentSection.open
                           THEN Append(@, WithSubsection(st)) ELSE @,
              !.currentSection = [title |-> header.title, content |-> <<>>,
                                  citations |-> <<>>, subsections |-> <<>>,
                                  open |-> TRUE],
              !.currentSubsection = IF st.currentSection.open THEN NoSection ELSE @,
              !.inAbstract = FALSE]
      ELSE IF subHeader.match /\ st.currentSection.open
      THEN [st EXCEPT
              !.currentSection.subsections =
                 IF st.currentSubsection.open
                 THEN Append(@, Closed(st.currentSubsection)) ELSE @,
              !.currentSubsection = [title |-> subHeader.title, content |-> <<>>,
                                     citations |-> <<>>, open |-> TRUE]]
      ELSE IF trimmedLine = <<>> THEN st
      ELSE IF st.inAbstract /\ Len(st.sections) = 0
      THEN [st EXCEPT !.abstract = Append(@, line)]
      ELSE IF st.currentSubsection.open
      THEN [st EXCEPT
              !.currentSubsection.content = Append(@, line),
              !.currentSubsection.citations =
                 Unique(@ \o ExtractCitationsOfLine(line))]
      ELSE IF st.currentSection.open
      THEN [st EXCEPT
              !.currentSection.content = Append(@, line),
              !.currentSection.citations =
                 Unique(@ \o ExtractCitationsOfLine(line))]
      ELSE st

RECURSIVE ParseAcademicLines(_, _)
ParseAcademicLines(st, lines) ==
  IF lines = <<>> THEN st
  ELSE ParseAcademicLines(ParseAcademicLine(st, Head(lines)), Tail(lines))

\* AIService.parseAcademicReportResponse
ParseAcademicReportResponse(response, topic, citations) ==
  LET st       == ParseAcademicLines(AcademicStart, response)
      pushed   == IF st.currentSection.open
                  THEN Append(st.sections, WithSubsection(st))
                  ELSE st.sections
      sections == IF Len(pushed) = 0
                  THEN <<[title |-> <<"Overview">>, content |-> response,
                          citations |-> ExtractCitations(response),
                          subsections |-> <<>>]>>
                  ELSE pushed
  IN  [topic |-> topic,
       summary |-> IF st.abstract # <<>> THEN st.abstract
                   ELSE Substring(response, SummaryChars),
       sections |-> sections,
       citations |-> citations]

\* a field value that is truthy and not a string (an array of paragraphs)
NotAString == << <<"not a string">> >>

\* the fields buildReportFromStructure passes to extractCitations
CitedFields ==
  {"introduction", "literature_review", "methodology", "findings",
   "discussion", "conclusion", "recommendations"}

\* a missing field gets a placeholder text
FieldOrPlaceholder(reportData, name) ==
  IF reportData.type = "object" /\ name \in DOMAIN reportData.fields
  THEN reportData.fields[name]
  ELSE << <<"missing">> >>

\* reportData.<name> || '': the field's text, or '' when it is missing
FieldOr(reportData, name) ==
  IF reportData.type = "object" /\ name \in DOMAIN reportData.fields
  THEN reportData.fields[name]
  ELSE EmptyText

StructuredSection(title, reportData, name) ==
  [title |-> <<title>>, content |-> FieldOr(reportData, name),
   citations |-> ExtractCitations(FieldOr(reportData, name))]

\* AutoResearchAgent.buildReportFromStructure; reading a field of null
\* throws a TypeError, and so does extractCitations (text.match) on a value
\* that is not a string
BuildReportFromStructure(reportData, topic, citations) ==
  LET sections ==
        <<[title |-> <<"Abstract">>, content |-> FieldOr(reportData, "abstract"),
           citations |-> <<>>],
          StructuredSection("Introduction", reportData, "introduction"),
          StructuredSection("Literature Review", reportData, "literature_review"),
          StructuredSection("Methodology", reportData, "methodology"),
          StructuredSection("Findings and Results", reportData, "findings"),
          StructuredSection("Discussion and Analysis", reportData, "discussion"),
          StructuredSection("Conclusion", reportData, "conclusion"),
          StructuredSection("Recommendations", reportData, "recommendations")>>
      filled == SelectSeq(sections, LAMBDA sec : sec.content # EmptyText)
  IN  IF \/ reportData.type = "null"
         \/ \E name \in CitedFields : FieldOr(reportData, name) = NotAString
      THEN [threw |-> TRUE]
      ELSE [threw |-> FALSE,
            report |->
              [topic |-> topic,
               summary |-> IF FieldOr(reportData, "abstract") # EmptyText
                           THEN FieldOr(reportData, "abstract")
                           ELSE IF filled # <<>>
                           THEN Substring(filled[1].content, SummaryChars)
                           ELSE EmptyText,
               sections |-> sections,
               citations |-> citations]]

\* the lines a free-text response is made of
ReportLines ==
  {<<>>, <<Blank>>,
   <<"##", NumberDot, "Abstract">>,
   <<"##", NumberDot, "INTRODUCTION">>,
   <<NumberDot, "FINDINGS">>,
   <<"###", "Details">>,
   <<"A.", "Scope">>,
   <<"words", "[1]">>,
   <<"words", "[3]", "[1]">>,
   <<"an", "abstract", "idea">>}

\* longest free-text response, in lines
MaxLines == 3

\* the model is asked directly, or as a step of research()
InPipeline == pc # "Idle"

FallbackTexts ==
  IF InPipeline
  THEN {EmptyText,
        <<<<"##", NumberDot, "Abstract">>, <<"words", "[1]">>,
          <<"##", NumberDot, "INTRODUCTION">>, <<"words", "[3]", "[1]">>>>}
  ELSE SeqsUpTo(ReportLines, MaxLines) \ {<<>>}

\* what the second, free-text request yields; it has no timer
FallbackOutcomes ==
  {[kind |-> "error"], [kind |-> "never"]}
  \cup {[kind |-> "text", text |-> t] : t \in FallbackTexts}

FieldText == <<<<"words", "[1]">>>>

\* JSON objects the structured request may return
ReportObjects ==
  {[type |-> "object",
    fields |-> [n \in {"title", "abstract", "introduction", "literature_review",
                       "methodology", "findings", "discussion", "conclusion",
                       "recommendations"} |-> FieldText]],
   [type |-> "object",
    fields |-> [n \in {"title", "introduction", "findings"} |-> FieldText]],
   [type |-> "object", fields |-> [n \in {"abstract"} |-> EmptyText]],
   [type |-> "object",
    fields |-> [n \in {"abstract", "introduction", "findings"} |->
                  IF n = "findings" THEN NotAString ELSE FieldText]]}

\* what runner.ask(prompt) raced against the 45 s timer yields
ReportOutcomes ==
  {[kind |-> "timeout"], [kind |-> "error"]}
  \cup {[kind |-> "text", fenced |-> f, json |-> j] :
          f \in (IF InPipeline THEN {FALSE} ELSE BOOLEAN),
          j \in {[type |-> "malformed"], [type |-> "null"], [type |-> "string"]}
                \cup ReportObjects}

\* generateReport(topic, analysis, extractedContent) is entered
GenerateReportCall(topic, an, extracted, cfg) ==
  [op |-> "generateReport", topic |-> topic, analysis |-> an,
   extracted |-> extracted, cfg |-> cfg, phase |-> "primary",
   primary |-> None, fallback |-> None, requests |-> <<>>, result |-> None,
   error |-> NoError]

AsmRunning == asm # Idle /\ asm.op = "generateReport"

\* everything a generateReport step leaves alone
asmOther == <<pc, researchTopic, config, progressCallback, log, queries,
              searchResults, extractedContent, analysis, report, outputPaths,
              thrown, ex, env, fin, fout, bot, tg>>

\* the try block of generateReport when selectModel() throws
AsmNoProvider ==
  /\ AsmRunning /\ asm.phase = "primary"
  /\ SelectModel(asm.cfg).threw
  /\ asm' = [asm EXCEPT !.phase = "fallback", !.primary = [kind |-> "no provider"]]
  /\ UNCHANGED <<calls, asmOther>>

\* the try block of generateReport: the structured request, JSON.parse and
\* buildReportFromStructure; any error hands over to the catch block
AsmPrimary ==
  /\ AsmRunning /\ asm.phase = "primary"
  /\ ~SelectModel(asm.cfg).threw
  /\ \E outcome \in ReportOutcomes :
       LET parsed == IF outcome.kind = "text" THEN JsonParse(StripFences(outcome))
                     ELSE [threw |-> TRUE]
           built  == IF parsed.threw THEN [threw |-> TRUE]
                     ELSE BuildReportFromStructure(parsed.value, asm.topic,
                                                   CitationsOf(asm.extracted))
       IN  asm' = [asm EXCEPT
                     !.primary = outcome,
                     !.requests = Append(@, "structured"),
                     !.phase = IF built.threw THEN "fallback" ELSE "returned",
                     !.result = IF built.threw THEN None ELSE built.report]
  /\ calls' = [calls EXCEPT !.llm = @ + 1]
  /\ UNCHANGED asmOther

\* generateFallbackReport when selectModel() throws: the error leaves
\* generateReport
AsmFallbackNoProvider ==
  /\ AsmRunning /\ asm.phase = "fallback"
  /\ SelectModel(asm.cfg).threw
  /\ asm' = [asm EXCEPT !.phase = "raised", !.fallback = [kind |-> "no provider"],
                        !.error = SelectModel(asm.cfg).error]
  /\ UNCHANGED <<calls, asmOther>>

\* generateFallbackReport: the free-text request is issued; it answers with
\* a text, fails, or never answers
AsmFallback ==
  /\ AsmRunning /\ asm.phase = "fallback"
  /\ ~SelectModel(asm.cfg).threw
  /\ \E outcome \in FallbackOutcomes :
       asm' = [asm EXCEPT
                 !.fallback = outcome,
                 !.requests = Append(@, "free text"),
                 !.phase = CASE outcome.kind = "text" -> "returned"
                             [] outcome.kind = "error" -> "raised"
                             [] OTHER -> "pending",
                 !.error = IF outcome.kind = "error" THEN "provider error"
                           ELSE NoError,
                 !.result = IF outcome.kind = "text"
                            THEN ParseReportResponse(outcome.text, asm.topic,
                                                     CitationsOf(asm.extracted))
                            ELSE None]
  /\ calls' = [calls EXCEPT !.llm = @ + 1]
  /\ UNCHANGED asmOther

----------------------------------------------------------------------------
(* Step 6: ReportGenerationService.generateReport *)

\* `${n}. `, `${n}` and `[${n}]` as tokens
NumTok(n) ==
  CASE n = 1 -> "1." [] n = 2 -> "2." [] n = 3 -> "3." [] n = 4 -> "4."
    [] n = 5 -> "5." [] n = 6 -> "6." [] n = 7 -> "7." [] n = 8 -> "8."
    [] n = 9 -> "9." [] OTHER -> "n."

DecTok(n) ==
  CASE n = 0 -> "0" [] n = 1 -> "1" [] n = 2 -> "2" [] n = 3 -> "3"
    [] n = 4 -> "4" [] OTHER -> "n"

BracketTok(n) ==
  CASE n = 0 -> "[0]" [] n = 1 -> "[1]" [] n = 2 -> "[2]" [] n = 3 -> "[3]"
    [] OTHER -> "[n]"

\* citations.findIndex(c => c.id === citId) + 1, or 0 when there is none
FindIndex(citations, citId) ==
  IF \E i \in 1..Len(citations) : citations[i].id = citId
  THEN CHOOSE i \in 1..Len(citations) :
         /\ citations[i].id = citId
         /\ \A j \in 1..(i - 1) : citations[j].id # citId
  ELSE 0

\* the numbers renderSection prints for a section's citation ids
CitationNumbers(section, citations) ==
  [i \in 1..Len(section.citations) |->
     LET idx == FindIndex(citations, section.citations[i])
     IN  IF idx >= 1 THEN DecTok(idx) ELSE "?"]

\* ReportGenerationService.renderSection for a section without subsections:
\* the heading, the content, and the reference line if the section has
\* citation ids (blank lines are left out)
RenderSection(section, level, citations, sectionNumber) ==
  <<<<(IF level = 2 THEN "##" ELSE "###"), NumTok(sectionNumber)>> \o section.title>>
  \o section.content
  \o (IF Len(section.citations) > 0
      THEN <<<<"*[References:">> \o CitationNumbers(section, citations) \o <<"]*">>>>
      ELSE <<>>)

RECURSIVE RenderSectionsFrom(_, _, _)
RenderSectionsFrom(sections, citations, k) ==
  IF k > Len(sections) THEN <<>>
  ELSE RenderSection(sections[k], 2, citations, k) \o <<<<"---">>>>
       \o RenderSectionsFrom(sections, citations, k + 1)

\* ReportGenerationService.generateMarkdown: the lines of the file, for a
\* report without visualizations
GenerateMarkdown(rep) ==
  <<<<"#", rep.topic>>, <<"---">>, <<"**Research Report**">>,
    <<"**Number of Sources:**", DecTok(Len(rep.citations))>>, <<"---">>,
    <<"##", "Abstract">>>>
  \o rep.summary
  \o <<<<"---">>, <<"##", "Table of Contents">>>>
  \o [k \in 1..Len(rep.sections) |-> <<NumTok(k), "link">> \o rep.sections[k].title]
  \o <<<<NumTok(Len(rep.sections) + 1), "link", "References">>, <<"---">>>>
  \o RenderSectionsFrom(rep.sections, rep.citations, 1)
  \o <<<<"##", "References">>>>
  \o [i \in 1..Len(rep.citations) |->
        <<BracketTok(i), "apa", rep.citations[i].title>>]

\* what writing one format yields
FormatOutcomes == {"written", "failed"}

\* the for loop over config.reportFormats: the path of every format that was
\* written, in configured order; a failure is logged and skipped
RECURSIVE WrittenPaths(_, _)
WrittenPaths(formats, outcome) ==
  IF formats = <<>> THEN <<>>
  ELSE (IF outcome[Head(formats)] = "written" THEN <<Head(formats)>> ELSE <<>>)
       \o WrittenPaths(Tail(formats), outcome)

\* generateReport whose loop rethrows the error of a format
RenderReportRethrows(formats, mkdirOk, outcome) ==
  IF ~mkdirOk THEN [threw |-> TRUE, error |-> "mkdir failed", paths |-> <<>>]
  ELSE IF \E i \in 1..Len(formats) : outcome[formats[i]] = "failed"
  THEN [threw |-> TRUE, error |-> "write failed", paths |-> <<>>]
  ELSE [threw |-> FALSE, error |-> NoError, paths |-> formats]

\* ReportGenerationService.generateReport: mkdir is outside the try blocks
RenderReport(formats, mkdirOk, outcome) ==
  IF ~mkdirOk THEN [threw |-> TRUE, error |-> "mkdir failed", paths |-> <<>>]
  ELSE [threw |-> FALSE, error |-> NoError, paths |-> WrittenPaths(formats, outcome)]

----------------------------------------------------------------------------
(* AutoResearchAgent.research *)

\* research() with steps 2 and 3 exchanged
StepNamesSwapped ==
  <<"Starting", "Step1Start", "QueryGen", "Step1Done",
    "Step3Start", "Extract", "Step3Done",
    "Step2Start", "Search", "Step2Done",
    "Step4Start", "Analyze", "Step4Done",
    "Step5Start", "Assemble", "Step5Done",
    "Step6Start", "Render", "CompleteNote">>

StepNamesLateStart ==
  <<"Starting", "QueryGen", "Step1Start", "Step1Done",
    "Step2Start", "Search", "Step2Done",
    "Step3Start", "Extract", "Step3Done",
    "Step4Start", "Analyze", "Step4Done",
    "Step5Start", "Assemble", "Step5Done",
    "Step6Start", "Render", "CompleteNote">>

\* the awaits of research(), in program order
StepNames ==
  <<"Starting", "Step1Start", "QueryGen", "Step1Done",
    "Step2Start", "Search", "Step2Done",
    "Step3Start", "Extract", "Step3Done",
    "Step4Start", "Analyze", "Step4Done",
    "Step5Start", "Assemble", "Step5Done",
    "Step6Start", "Render", "CompleteNote">>

StageNames == {"QueryGen", "Search", "Extract", "Analyze", "Assemble", "Render"}

IsNotifyStep(name) == name \in Range(StepNames) \ StageNames

StepIndex(name) == CHOOSE i \in 1..Len(StepNames) : StepNames[i] = name

\* where research() continues after the step returns
NextPc(name) ==
  IF StepIndex(name) = Len(StepNames) THEN "Complete"
  ELSE StepNames[StepIndex(name) + 1]

Begin(stage) == [t |-> "begin", what |-> stage]
End(stage) == [t |-> "end", what |-> stage]
Notified(label) == [t |-> "notify", what |-> label]

\* largest maxSources of a research topic
MaxSources == 2

PipelineTopic == "solar"

\* researchTopic.maxSources || config.maxSearchResults
EffectiveMaxSources(topic, cfg) ==
  IF topic.maxSources # 0 THEN topic.maxSources ELSE cfg.maxSearchResults

\* validateConfig accepts every configuration
ValidateConfigLax(cfg) == TRUE

\* validateConfig does not throw: a model provider key and a search key are set
ValidateConfig(cfg) ==
  /\ cfg.openaiApiKey \/ cfg.anthropicApiKey \/ cfg.geminiApiKey
  /\ cfg.serperApiKey \/ cfg.braveApiKey \/ cfg.googleSearchApiKey

\* loadConfig(): the configuration read from the environment
LoadedConfig(provider, serper) ==
  [geminiApiKey |-> provider, openaiApiKey |-> FALSE,
   anthropicApiKey |-> FALSE, serperApiKey |-> serper,
   braveApiKey |-> FALSE, googleSearchApiKey |-> FALSE,
   googleSearchCx |-> FALSE, maxSearchResults |-> MaxSources,
   reportFormats |-> <<"markdown", "pdf">>]

\* the config module is loaded by the first import: config = loadConfig()
\* followed by validateConfig(config), whose error ends the load
LoadConfig ==
  /\ pc = "Idle" /\ fin = Idle /\ ex = Idle /\ asm = Idle
  /\ \E provider \in BOOLEAN, serper \in BOOLEAN :
       LET cfg == LoadedConfig(provider, serper)
       IN  /\ config' = cfg
           /\ pc' = IF ValidateConfig(cfg) THEN "Loaded" ELSE "LoadFailed"
  /\ UNCHANGED <<researchTopic, progressCallback, log, queries, searchResults,
                 extractedContent, analysis, report, outputPaths, thrown, ex, asm,
                 calls, env, fin, fout, bot, tg>>

\* research(researchTopic) is called on an agent built with or without a
\* progress callback
StartResearch ==
  /\ pc = "Loaded"
  /\ \E depth \in {"basic", "undefined"}, maxSources \in 1..MaxSources,
        formats \in {<<"markdown">>, <<"markdown", "pdf">>}, cb \in BOOLEAN :
       /\ researchTopic' = [topic |-> PipelineTopic, depth |-> depth,
                            maxSources |-> maxSources, outputFormats |-> formats]
       /\ progressCallback' = cb
  /\ pc' = StepNames[1]
  /\ UNCHANGED <<config, log, queries, searchResults, extractedContent, analysis,
                 report, outputPaths, thrown, ex, asm, calls, env, fin, fout, bot, tg>>

\* what a step of research() outside the sub-calls leaves alone
resultVars == <<queries, searchResults, extractedContent, analysis, report,
                outputPaths>>
inputVars == <<researchTopic, config, progressCallback, fin, fout, bot, tg>>
pipeInputs == <<inputVars, env>>

\* notifyProgress: the callback, if any, is awaited and returns
NotifyProgress ==
  /\ IsNotifyStep(pc)
  /\ log' = IF progressCallback THEN Append(log, Notified(pc)) ELSE log
  /\ pc' = NextPc(pc)
  /\ UNCHANGED <<resultVars, pipeInputs, thrown, ex, asm, calls>>

\* notifyProgress with a callback that is not awaited: its rejection is
\* noted and research() goes on
NotifyThrowsUnawaited ==
  /\ IsNotifyStep(pc) /\ progressCallback
  /\ pc' = NextPc(pc)
  /\ thrown' = "callback error"
  /\ UNCHANGED <<log, resultVars, pipeInputs, ex, asm, calls>>

\* notifyProgress: the awaited callback throws or rejects
NotifyThrows ==
  /\ IsNotifyStep(pc) /\ progressCallback
  /\ pc' = "Error"
  /\ thrown' = "callback error"
  /\ UNCHANGED <<log, resultVars, pipeInputs, ex, asm, calls>>

\* outcomes of the query model as a step of research()
PipelineQueryOutcomes ==
  {[kind |-> "timeout"],
   [kind |-> "text", fenced |-> FALSE,
    json |-> [type |-> "array",
              items |-> <<Str(<<"solar", "panels">>), Str(<<"grid">>)>>]]}

\* step 1
QueryGenStage ==
  /\ pc = "QueryGen"
  /\ \E outcome \in PipelineQueryOutcomes :
       LET r == GenerateSearchQueries(researchTopic.topic, researchTopic.depth,
                                      config, outcome)
       IN  /\ queries' = r.value
           /\ calls' = [calls EXCEPT !.llm = @ + r.llm]
           /\ log' = log \o <<Begin("QueryGen"), End("QueryGen")>>
           /\ pc' = NextPc(pc)
  /\ UNCHANGED <<searchResults, extractedContent, analysis, report, outputPaths,
                 pipeInputs, thrown, ex, asm>>

\* Math.ceil(a / b) for positive integers
CeilDiv(a, b) == (a + b - 1) \div b

\* AutoResearchAgent.removeDuplicates: first occurrence of each URL as
\* written, then slice(0, maxCount)
RECURSIVE AgentUniqueFrom(_, _)
AgentUniqueFrom(results, seen) ==
  IF results = <<>> THEN <<>>
  ELSE IF Head(results).url \in seen
       THEN AgentUniqueFrom(Tail(results), seen)
       ELSE <<Head(results)>>
            \o AgentUniqueFrom(Tail(results), seen \cup {Head(results).url})

AgentRemoveDuplicates(results, maxCount) ==
  Slice(AgentUniqueFrom(results, {}), maxCount)

\* the forEach of executeSearches: the data of every search that succeeded
RECURSIVE SuccessfulData(_)
SuccessfulData(toolResults) ==
  IF toolResults = <<>> THEN <<>>
  ELSE (IF ~Head(toolResults).threw /\ Head(toolResults).success
        THEN Head(toolResults).data ELSE <<>>)
       \o SuccessfulData(Tail(toolResults))

\* AutoResearchAgent.executeSearches: answers[i] holds the settled backend
\* promises of the search for queries[i]
ExecuteSearches(qs, maxSources, answers) ==
  LET resultsPerQuery == CeilDiv(12 * maxSources, 10 * Len(qs))
      toolResults     == [i \in 1..Len(qs) |-> Search(answers[i], resultsPerQuery)]
  IN  AgentRemoveDuplicates(SuccessfulData(toolResults), maxSources)

\* backend answers as a step of research(): nothing at all, a full answer,
\* an answer of the encyclopedia alone
NoAnswer == <<[status |-> "rejected"], [status |-> "fulfilled", value |-> <<>>],
              [status |-> "rejected"]>>
FullAnswer ==
  <<[status |-> "fulfilled",
     value |-> <<SearchResultOf(<<"site", ".edu">>, "plain", WebScore),
                 SearchResultOf(<<"SITE", ".EDU", "/">>, "journal", WebScore)>>],
    [status |-> "fulfilled",
     value |-> <<SearchResultOf(<<"wikipedia.org", "/", "Page">>, "plain", WikiScore)>>],
    [status |-> "fulfilled",
     value |-> <<SearchResultOf(<<"site", ".edu", "/">>, "plain", ScholarScore)>>]>>
WikiAnswer ==
  <<[status |-> "rejected"],
    [status |-> "fulfilled",
     value |-> <<SearchResultOf(<<"wikipedia.org", "/", "Page">>, "plain", WikiScore)>>],
    [status |-> "rejected"]>>

WebAnswer ==
  <<[status |-> "fulfilled",
     value |-> <<SearchResultOf(<<"site", ".edu">>, "plain", WebScore)>>],
    [status |-> "rejected"], [status |-> "rejected"]>>

\* the answers to the odd and to the even queries of a run
PipelineSearchWorlds ==
  {<<NoAnswer, NoAnswer>>, <<FullAnswer, WikiAnswer>>, <<WikiAnswer, NoAnswer>>,
   <<WebAnswer, FullAnswer>>}

\* step 2
SearchStage ==
  /\ pc = "Search"
  /\ \E w \in PipelineSearchWorlds :
       LET answers == [i \in 1..Len(queries) |-> w[((i - 1) % 2) + 1]]
       IN  /\ searchResults' =
                ExecuteSearches(queries, EffectiveMaxSources(researchTopic, config),
                                answers)
           /\ env' = [env EXCEPT !.search = answers]
  /\ calls' = [calls EXCEPT !.search = @ + Len(queries) * Len(SearchPromises(config))]
  /\ log' = log \o <<Begin("Search"), End("Search")>>
  /\ pc' = NextPc(pc)
  /\ UNCHANGED <<queries, extractedContent, analysis, report, outputPaths,
                 inputVars, thrown, ex, asm>>

\* step 3 begins: extractMultiple(searchResults.map(r => r.url), 10)
ExtractBegin ==
  /\ pc = "Extract" /\ ex = Idle
  /\ ex' = ExtractCall([i \in 1..Len(searchResults) |-> searchResults[i].url],
                       PipelineConcurrency)
  /\ log' = Append(log, Begin("Extract"))
  /\ UNCHANGED <<pc, resultVars, pipeInputs, thrown, asm, calls>>

\* step 3 ends: content.filter(c => c.metadata.wordCount >= 50)
ExtractEnd ==
  /\ pc = "Extract" /\ ExRunning /\ ex.phase = "returned"
  /\ extractedContent' = FilterByWordCount(ex.results)
  /\ log' = Append(log, End("Extract"))
  /\ pc' = NextPc(pc)
  /\ UNCHANGED <<queries, searchResults, analysis, report, outputPaths,
                 pipeInputs, thrown, ex, asm, calls>>

\* outcomes of the analysis model as a step of research()
PipelineAnalysisOutcomes ==
  {[kind |-> "timeout", length |-> 0], [kind |-> "text", length |-> 101]}

\* step 4
AnalyzeStage ==
  /\ pc = "Analyze"
  /\ \E outcome \in PipelineAnalysisOutcomes :
       LET r == AnalyzeContent(researchTopic.topic, extractedContent, config, outcome)
       IN  /\ analysis' = [source |-> r.source, count |-> r.count, titles |-> r.titles]
           /\ calls' = [calls EXCEPT !.llm = @ + r.llm]
  /\ log' = log \o <<Begin("Analyze"), End("Analyze")>>
  /\ pc' = NextPc(pc)
  /\ UNCHANGED <<queries, searchResults, extractedContent, report, outputPaths,
                 pipeInputs, thrown, ex, asm>>

\* step 5 begins: generateReport(topic, analysis, extractedContent, ...)
AssembleBegin ==
  /\ pc = "Assemble" /\ asm = Idle
  /\ asm' = GenerateReportCall(researchTopic.topic, analysis, extractedContent, config)
  /\ log' = Append(log, Begin("Assemble"))
  /\ UNCHANGED <<pc, resultVars, pipeInputs, thrown, ex, calls>>

\* step 5 ends: generateReport returned a report
AssembleEnd ==
  /\ pc = "Assemble" /\ AsmRunning /\ asm.phase = "returned"
  /\ report' = asm.result
  /\ log' = Append(log, End("Assemble"))
  /\ pc' = NextPc(pc)
  /\ UNCHANGED <<queries, searchResults, extractedContent, analysis, outputPaths,
                 pipeInputs, thrown, ex, asm, calls>>

\* step 5 fails: the error of generateReport reaches the catch block of
\* research(), which rethrows it
AssembleThrows ==
  /\ pc = "Assemble" /\ AsmRunning /\ asm.phase = "raised"
  /\ thrown' = asm.error
  /\ pc' = "Error"
  /\ UNCHANGED <<log, resultVars, pipeInputs, ex, asm, calls>>

\* step 6: an error of mkdir is rethrown, an error of one format is not
RenderStage ==
  /\ pc = "Render"
  /\ \E mkdirOk \in BOOLEAN,
        outcome \in [Range(config.reportFormats) -> FormatOutcomes] :
       LET r == RenderReport(config.reportFormats, mkdirOk, outcome)
       IN  /\ outputPaths' =
                [i \in 1..Len(r.paths) |->
                   [format |-> r.paths[i],
                    file |-> IF r.paths[i] = "markdown" THEN GenerateMarkdown(report)
                             ELSE <<>>]]
           /\ thrown' = r.error
           /\ log' = IF r.threw THEN Append(log, Begin("Render"))
                     ELSE log \o <<Begin("Render"), End("Render")>>
           /\ pc' = IF r.threw THEN "Error" ELSE NextPc(pc)
           /\ env' = [env EXCEPT !.render = IF mkdirOk THEN outcome ELSE <<>>]
  /\ UNCHANGED <<queries, searchResults, extractedContent, analysis, report,
                 inputVars, ex, asm, calls>>

\* research() of AutoResearchAgent
Next ==
  \/ LoadConfig
  \/ StartResearch
  \/ NotifyProgress
  \/ NotifyThrows
  \/ QueryGenStage
  \/ SearchStage
  \/ ExtractBegin
  \/ ExStartBatch
  \/ ExSettle
  \/ ExCollect
  \/ ExReturn
  \/ ExtractEnd
  \/ AnalyzeStage
  \/ AssembleBegin
  \/ AsmPrimary
  \/ AsmFallback
  \/ AssembleEnd
  \/ AssembleThrows
  \/ RenderStage

----------------------------------------------------------------------------
(* TelegramBotHandler: one session per chat, research runs in the background *)

Chats == {1, 2}
\* the sessions Map is keyed by chatId and the sessions share nothing, so the
\* handler is followed for one chat
SessionChats == {1}
MaxRuns == 2
MaxTicks == 1

\* session.currentResearch = undefined
NoResearch == 0

\* the paths research() can resolve with
PathSets == {<<>>, <<"markdown", "pdf">>}

\* a session before its first message: handleMessage creates it on demand
NewSession == [awaitingTopic |-> FALSE, currentResearch |-> NoResearch]

\* everything a step of the handler leaves alone
botOther == <<pc, researchTopic, config, progressCallback, log, queries,
              searchResults, extractedContent, analysis, report, outputPaths,
              thrown, ex, asm, calls, env, fin, fout, tg>>


SetSession(chat, field, value) ==
  [bot.sessions EXCEPT ![chat] = [@ EXCEPT ![field] = value]]

\* the await of Promise.race is still pending
RaceOpenAlways(run) == TRUE

RaceOpen(run) == run.handler = "racing"

\* the sendDocument calls of the for loop over outputPaths, one per path
DocumentsOf(paths) == [i \in 1..Len(paths) |-> "document"]

\* /research
HandleResearchCommand(chat) ==
  /\ IF bot.sessions[chat].currentResearch # NoResearch
       THEN bot' = bot
       ELSE bot' = [bot EXCEPT !.sessions = SetSession(chat, "awaitingTopic", TRUE)]
  /\ UNCHANGED botOther

\* /cancel
HandleCancel(chat) ==
  /\ IF bot.sessions[chat].currentResearch = NoResearch
       THEN bot' = bot
       ELSE bot' = [bot EXCEPT
              !.sessions = SetSession(chat, "currentResearch", NoResearch),
              !.runs[bot.sessions[chat].currentResearch].sent = Append(@, "cancelled")]
  /\ UNCHANGED botOther

\* a text that is no command: handleMessage resets awaitingTopic and calls
\* startResearch, which starts executeResearch up to its await of the race
HandleTopic(chat, validLength, startSent) ==
  /\ Len(bot.runs) < MaxRuns
  /\ LET sessions == SetSession(chat, "awaitingTopic", FALSE)
         r == Len(bot.runs) + 1
     IN IF bot.sessions[chat].currentResearch # NoResearch
          THEN bot' = [bot EXCEPT !.sessions = sessions]
          ELSE IF ~validLength
            THEN bot' = [bot EXCEPT !.sessions = sessions]
            ELSE bot' = [bot EXCEPT
                   !.sessions = [sessions EXCEPT ![chat].currentResearch = r],
                   !.runs = Append(@,
                      [chat |-> chat,
                       pipeline |-> IF startSent THEN "running" ELSE "notStarted",
                       paths |-> <<>>,
                       handler |-> IF startSent THEN "racing" ELSE "notStarted",
                       cause |-> "none",
                       interval |-> IF startSent THEN "active" ELSE "none",
                       ticks |-> 0,
                       sent |-> IF startSent THEN <<"started">> ELSE <<>>])]
  /\ UNCHANGED botOther

\* the status messages sent so far by the interval callbacks of all runs
TotalTicks ==
  LET F[i \in 0..Len(bot.runs)] ==
        IF i = 0 THEN 0 ELSE F[i - 1] + bot.runs[i].ticks
  IN F[Len(bot.runs)]

\* the setInterval callback of run r fires
StatusTick(r) ==
  /\ r \in 1..Len(bot.runs)
  /\ bot.runs[r].interval = "active"
  /\ TotalTicks < MaxTicks
  /\ bot' = [bot EXCEPT !.runs[r].ticks = @ + 1,
                        !.runs[r].sent = Append(@, "status")]
  /\ UNCHANGED botOther

\* agent.research() of run r resolves with its paths; if the race is still
\* open the rest of the try block runs: completeSent is whether the send of
\* the completion message returned (the later sends are taken to return)
PipelineResolves(r, paths, completeSent) ==
  /\ r \in 1..Len(bot.runs)
  /\ bot.runs[r].pipeline = "running"
  /\ LET run == bot.runs[r]
         chat == run.chat
     IN IF ~RaceOpen(run)
          THEN bot' = [bot EXCEPT !.runs[r].pipeline = "resolved",
                                  !.runs[r].paths = paths]
          ELSE IF completeSent
            THEN bot' = [bot EXCEPT
                   !.runs[r] = [run EXCEPT !.pipeline = "resolved", !.paths = paths,
                                           !.handler = "completed",
                                           !.interval = "cleared",
                                           !.sent = (Append(@, "complete")
                                                       \o DocumentsOf(paths))
                                                       \o <<"allDone">>],
                   !.sessions = SetSession(chat, "currentResearch", NoResearch)]
            ELSE bot' = [bot EXCEPT
                   !.runs[r] = [run EXCEPT !.pipeline = "resolved", !.paths = paths,
                                           !.handler = "failed", !.cause = "send",
                                           !.interval = "cleared",
                                           !.sent = Append(@, "failed")],
                   !.sessions = SetSession(chat, "currentResearch", NoResearch)]
  /\ UNCHANGED botOther

\* the catch block of executeResearch, entered by run r in handler state b
CatchBlock(b, r, cause) ==
  [b EXCEPT
    !.runs[r].handler = "failed",
    !.runs[r].cause = cause,
    !.runs[r].sent = Append(@, "failed"),
    !.sessions[b.runs[r].chat].currentResearch = NoResearch]

\* agent.research() of run r rejects
PipelineRejects(r) ==
  /\ r \in 1..Len(bot.runs)
  /\ bot.runs[r].pipeline = "running"
  /\ LET settled == [bot EXCEPT !.runs[r].pipeline = "rejected"]
     IN bot' = IF RaceOpen(bot.runs[r]) THEN CatchBlock(settled, r, "error")
                                         ELSE settled
  /\ UNCHANGED botOther

\* the 180000 ms timer of run r fires before research() has settled
TimeoutFires(r) ==
  /\ r \in 1..Len(bot.runs)
  /\ bot.runs[r].pipeline = "running"
  /\ bot.runs[r].handler = "racing"
  /\ bot' = CatchBlock(bot, r, "timeout")
  /\ UNCHANGED botOther

HandlerNext ==
  \/ \E chat \in SessionChats : HandleResearchCommand(chat)
  \/ \E chat \in SessionChats : HandleCancel(chat)
  \/ \E chat \in SessionChats, validLength \in BOOLEAN, startSent \in BOOLEAN :
       HandleTopic(chat, validLength, startSent)
  \/ \E r \in 1..MaxRuns : StatusTick(r)
  \/ \E r \in 1..MaxRuns, paths \in PathSets, completeSent \in BOOLEAN :
       PipelineResolves(r, paths, completeSent)
  \/ \E r \in 1..MaxRuns : PipelineRejects(r)
  \/ \E r \in 1..MaxRuns : TimeoutFires(r)

----------------------------------------------------------------------------
(* TelegramBot: one shared agent and one shared currentCtx for all chats *)

MaxProgress == 2

\* this.currentCtx = undefined
NoCtx == 0

tgOther == <<pc, researchTopic, config, progressCallback, log, queries,
             searchResults, extractedContent, analysis, report, outputPaths,
             thrown, ex, asm, calls, env, fin, fout, bot>>

\* ctx.reply issued to chat `to` for the run started by chat `run`;
\* to = NoCtx records a notification that was dropped
Reply(run, kind, to) == [run |-> run, kind |-> kind, to |-> to]

\* most text messages and callbacks that start no research
MaxUpdates == 2

\* pendingResearch.get(userId) of a user with no entry
NoTopic == "no topic"

\* a private chat: the user id is the chat id
Users == Chats

\* executeResearchWithDepth up to its await of researchAgent.research()
ExecuteResearchWithDepth(t, chat) ==
  [t EXCEPT !.currentCtx = chat,
            !.runs[chat].state = "running",
            !.runs[chat].started = @ + 1]

\* a text message that is no command: a research request is kept as the
\* user's pending topic and answered with the depth buttons, anything else
\* is answered by handleConversation. A user writes while no research of
\* theirs is running.
TextMessage(user, shouldResearch) ==
  /\ tg.updates < MaxUpdates
  /\ tg.runs[user].state # "running"
  /\ IF shouldResearch
       THEN tg' = [tg EXCEPT !.updates = @ + 1,
                             !.pendingResearch[user] = "solar",
                             !.runs[user].asked = @ + 1,
                             !.replies = Append(@, Reply(user, "choose depth", user))]
       ELSE tg' = [tg EXCEPT !.updates = @ + 1,
                             !.replies = Append(@, Reply(user, "conversation", user))]
  /\ UNCHANGED tgOther

\* callback_query with data pref_<depth>
PreferenceCallback(user, depth) ==
  /\ tg.updates < MaxUpdates
  /\ tg' = [tg EXCEPT !.updates = @ + 1,
                      !.userPreferences[user] = depth,
                      !.replies = Append(@, Reply(user, "preference saved", user))]
  /\ UNCHANGED tgOther

\* the depth branch of the callback handler that starts the research and
\* leaves the pending topic in place
DepthCallbackKeepsTopic(user) ==
  /\ tg.pendingResearch[user] # NoTopic
  /\ tg' = ExecuteResearchWithDepth(tg, user)
  /\ UNCHANGED tgOther

\* callback_query with data depth_<depth>: without a pending topic it is
\* answered 'Topic not found'; otherwise the topic is deleted and
\* executeResearchWithDepth runs up to its await of research()
DepthCallback(user) ==
  /\ IF tg.pendingResearch[user] = NoTopic
       THEN /\ tg.updates < MaxUpdates
            /\ tg' = [tg EXCEPT !.updates = @ + 1,
                                !.replies = Append(@, Reply(user, "topic not found", user))]
       ELSE tg' = ExecuteResearchWithDepth(
                    [tg EXCEPT !.pendingResearch[user] = NoTopic], user)
  /\ UNCHANGED tgOther

\* callback_query with any other data
UnknownCallback(user) ==
  /\ tg.updates < MaxUpdates
  /\ tg' = [tg EXCEPT !.updates = @ + 1,
                      !.replies = Append(@, Reply(user, "unknown action", user))]
  /\ UNCHANGED tgOther

\* the shared agent notifies progress for the run of `chat`: the callback
\* given to the constructor calls sendProgressUpdate
SendProgressUpdate(chat) ==
  /\ tg.runs[chat].state = "running"
  /\ tg.runs[chat].emitted < MaxProgress
  /\ tg' = [tg EXCEPT !.runs[chat].emitted = @ + 1,
                      !.replies = Append(@, Reply(chat, "progress", tg.currentCtx))]
  /\ UNCHANGED tgOther

\* researchAgent.research() settles for the run of `chat`: the files or the
\* failure message go to ctx, and the finally block clears currentCtx
ResearchSettles(chat, resolved) ==
  /\ tg.runs[chat].state = "running"
  /\ tg' = [tg EXCEPT
       !.runs[chat].state = "settled",
       !.replies = Append(@, Reply(chat, IF resolved THEN "delivered" ELSE "failed",
                                   chat)),
       !.currentCtx = NoCtx]
  /\ UNCHANGED tgOther

TelegramBotNext ==
  \/ \E user \in Users, shouldResearch \in BOOLEAN : TextMessage(user, shouldResearch)
  \/ \E user \in Users, depth \in {"basic", "comprehensive"} :
       PreferenceCallback(user, depth)
  \/ \E user \in Users : DepthCallback(user)
  \/ \E user \in Users : UnknownCallback(user)
  \/ \E chat \in Chats : SendProgressUpdate(chat)
  \/ \E chat \in Chats, resolved \in BOOLEAN : ResearchSettles(chat, resolved)

\* no message has arrived yet
BotIdle ==
  /\ bot = [sessions |-> [chat \in SessionChats |-> NewSession],
            runs |-> <<>>]
  /\ tg = [currentCtx |-> NoCtx,
           runs |-> [chat \in Chats |->
                       [state |-> "idle", emitted |-> 0, asked |-> 0, started |-> 0]],
           pendingResearch |-> [user \in Users |-> NoTopic],
           userPreferences |-> [user \in Users |-> "unset"],
           updates |-> 0,
           replies |-> <<>>]

----------------------------------------------------------------------------
(* Service calls under test *)

FnInit == fin = Idle /\ fout = Idle

\* the pipeline is not running
PipeIdle ==
  /\ pc = "Idle"
  /\ researchTopic = None
  /\ config = None
  /\ progressCallback = FALSE
  /\ log = <<>>
  /\ queries = <<>>
  /\ searchResults = <<>>
  /\ extractedContent = <<>>
  /\ analysis = None
  /\ report = None
  /\ outputPaths = <<>>
  /\ thrown = NoError
  /\ asm = Idle
  /\ calls = [llm |-> 0, search |-> 0, fetch |-> 0]
  /\ env = [search |-> <<>>, render |-> <<>>]

ExIdle == ex = Idle

\* nothing has been called yet
Init == PipeIdle /\ ExIdle /\ FnInit /\ BotIdle

\* one call of AutoResearchAgent.generateSearchQueries
CallGenerateSearchQueries ==
  /\ fin = Idle
  /\ \E topic \in Topics, depth \in Depths, provider \in BOOLEAN,
        outcome \in QueryOutcomes :
       LET cfg == [geminiApiKey |-> provider, openaiApiKey |-> FALSE,
                   anthropicApiKey |-> FALSE]
       IN  /\ fin' = [op |-> "generateSearchQueries", topic |-> topic,
                      depth |-> depth, cfg |-> cfg, outcome |-> outcome]
           /\ fout' = GenerateSearchQueries(topic, depth, cfg, outcome)
  /\ UNCHANGED <<pipeVars, ex>>

\* one call of SearchService.search
CallSearch ==
  /\ fin = Idle
  /\ \E cfg \in SearchConfigs, maxResults \in 1..MaxBudget :
       \E outcomes \in OutcomesOf(cfg) :
         /\ fin' = [op |-> "search", cfg |-> cfg, backends |-> SearchPromises(cfg),
                    outcomes |-> outcomes, maxResults |-> maxResults]
         /\ fout' = Search(outcomes, maxResults)
  /\ UNCHANGED <<pipeVars, ex>>

\* the k-th URL handed to extractMultiple
UrlOf(k) == <<"site", ".edu", "/", k>>
\* most URLs in one call, and the widest concurrency window
MaxUrls == 3
MaxConcurrent == 2

\* one call of ContentExtractionService.extractMultiple
CallExtractMultiple ==
  /\ ex = Idle
  /\ \E n \in 0..MaxUrls, maxConcurrent \in 1..MaxConcurrent :
       ex' = ExtractCall([k \in 1..n |-> UrlOf(k)], maxConcurrent)
  /\ UNCHANGED <<calls, exOther>>

\* what one request of a search backend can yield
BackendAttempts ==
  {[ok |-> TRUE, kind |-> "results"], [ok |-> FALSE, kind |-> "timeout"],
   [ok |-> FALSE, kind |-> "connection reset"], [ok |-> FALSE, kind |-> "http 5xx"],
   [ok |-> FALSE, kind |-> "http 4xx"]}

\* one backend call of SearchService: retryWithBackoff(fn) with its defaults
CallSearchBackend ==
  /\ fin = Idle
  /\ \E attempts \in [1..DefaultMaxRetries -> BackendAttempts] :
       /\ fin' = [op |-> "searchBackend", attempts |-> attempts]
       /\ fout' = RetryWithBackoff(attempts, DefaultMaxRetries)
  /\ UNCHANGED <<pipeVars, ex>>

SpecRetry == Init /\ [][CallSearchBackend]_vars

\* one call of AIService.generateReport whose completion returned a text
CallAcademicReport ==
  /\ fin = Idle
  /\ \E response \in SeqsUpTo(ReportLines, MaxLines) \ {<<>>} :
       /\ fin' = [op |-> "academicReport", response |-> response]
       /\ fout' = ParseAcademicReportResponse(response, "solar", <<>>)
  /\ UNCHANGED <<pipeVars, ex>>

SpecAcademic == Init /\ [][CallAcademicReport]_vars

SpecExtract ==
  Init /\ [][CallExtractMultiple \/ ExStartBatch \/ ExSettle \/ ExCollect \/ ExReturn]_vars

\* the k-th extracted page handed to generateReport
SampleContent(k) ==
  [url |-> UrlOf(k), title |-> "title", content |-> [length |-> 600],
   metadata |-> [wordCount |-> 90]]

\* most extracted pages handed to generateReport
MaxCitations == 2

\* one call of AutoResearchAgent.generateReport
CallGenerateReport ==
  /\ asm = Idle /\ pc = "Idle"
  /\ \E provider \in BOOLEAN, n \in 0..MaxCitations :
       asm' = GenerateReportCall(
                "solar",
                [source |-> "model", count |-> n, titles |-> <<>>],
                [k \in 1..n |-> SampleContent(k)],
                [geminiApiKey |-> FALSE, openaiApiKey |-> provider,
                 anthropicApiKey |-> FALSE])
  /\ UNCHANGED <<calls, asmOther>>

SpecAssemble ==
  Init /\ [][CallGenerateReport \/ AsmNoProvider \/ AsmPrimary
             \/ AsmFallbackNoProvider \/ AsmFallback]_vars

\* most extracted pages handed to analyzeContent
MaxContents == 4

\* an extracted page with a given title
TitledContent(title) ==
  [url |-> UrlOf(1), title |-> title, content |-> [length |-> 600],
   metadata |-> [wordCount |-> 90]]

\* one call of AutoResearchAgent.analyzeContent
CallAnalyzeContent ==
  /\ fin = Idle
  /\ \E topic \in Topics, provider \in BOOLEAN, outcome \in AnalysisOutcomes,
        titles \in SeqsUpTo({"first", "second"}, MaxContents) :
       LET cfg     == [geminiApiKey |-> FALSE, openaiApiKey |-> FALSE,
                       anthropicApiKey |-> provider]
           content == [i \in 1..Len(titles) |-> TitledContent(titles[i])]
       IN  /\ fin' = [op |-> "analyzeContent", topic |-> topic, content |-> content,
                      cfg |-> cfg, outcome |-> outcome]
           /\ fout' = AnalyzeContent(topic, content, cfg, outcome)
  /\ UNCHANGED <<pipeVars, ex>>

SpecAnalyze == Init /\ [][CallAnalyzeContent]_vars

\* the report generateReport returned is rendered as Markdown
CallGenerateMarkdown ==
  /\ AsmRunning /\ asm.phase = "returned" /\ fin = Idle
  /\ fin' = [op |-> "generateMarkdown", report |-> asm.result]
  /\ fout' = [file |-> GenerateMarkdown(asm.result),
              sections |-> [k \in 1..Len(asm.result.sections) |->
                              RenderSection(asm.result.sections[k], 2,
                                            asm.result.citations, k)]]
  /\ UNCHANGED <<pipeVars, ex>>

\* generateReport followed by generateMarkdown
SpecHandler == Init /\ [][HandlerNext]_vars

SpecTelegramBot == Init /\ [][TelegramBotNext]_vars

SpecReport ==
  Init /\ [][CallGenerateReport \/ AsmNoProvider \/ AsmPrimary
             \/ AsmFallbackNoProvider \/ AsmFallback \/ CallGenerateMarkdown]_vars

SpecQuery == Init /\ [][CallGenerateSearchQueries]_vars

SpecSearch == Init /\ [][CallSearch]_vars

\* the pipeline specification: research() on an idle agent
Spec == Init /\ [][Next]_vars

----------------------------------------------------------------------------
(* Properties *)

\* number of results the fulfilled backends returned together
RECURSIVE TotalResults(_)
TotalResults(outcomes) ==
  IF outcomes = <<>> THEN 0
  ELSE (IF Head(outcomes).status = "fulfilled" THEN Len(Head(outcomes).value) ELSE 0)
       + TotalResults(Tail(outcomes))

IsPrefix(a, b) == Len(a) <= Len(b) /\ a = SubSeq(b, 1, Len(a))

\* the stage events of the run so far
StageEvents == SelectSeq(log, LAMBDA e : e.t \in {"begin", "end"})

CanonicalEvents ==
  <<Begin("QueryGen"), End("QueryGen"), Begin("Search"), End("Search"),
    Begin("Extract"), End("Extract"), Begin("Analyze"), End("Analyze"),
    Begin("Assemble"), End("Assemble"), Begin("Render"), End("Render")>>

C1_Order ==
  /\ IsPrefix(StageEvents, CanonicalEvents)
  /\ pc = "Complete" => StageEvents = CanonicalEvents /\ thrown = NoError
  /\ pc = "Error" => thrown # NoError
  /\ pc \notin {"Complete", "Error"} => thrown = NoError

C1_Final == pc \in {"Complete", "Error"} => UNCHANGED <<pc, log, thrown, outputPaths>>

\* C1: in every run the stages begin in the order query generation, search,
\* extraction, analysis, assembly, rendering, each after the previous one has
\* ended and none twice; the run ends by returning the paths (Complete) or by
\* rethrowing an error (Error), after which nothing more runs.
C1_StagesInOrder == []C1_Order /\ [][C1_Final]_vars

C1_Witness ==
  /\ pc = "Complete"
  /\ StageEvents = CanonicalEvents
  /\ Len(outputPaths) = 2

\* every backend returned nothing for every query of the run
AllBackendsEmpty ==
  /\ env.search # <<>>
  /\ \A i \in 1..Len(env.search) : TotalResults(env.search[i]) = 0

\* C2: if every search backend returns nothing for every generated query,
\* research() aborts with an error and neither extraction, analysis, report
\* assembly nor rendering runs.
C2_EmptySearchAborts ==
  AllBackendsEmpty =>
    /\ \A stage \in {"Extract", "Analyze", "Assemble", "Render"} :
         Begin(stage) \notin Range(log)
    /\ pc # "Complete"

\* C3: with a provider configured, generateReport never raises to its
\* caller, whatever the structured and the free-text request yield.
C3_AssemblyNeverRaises ==
  AsmRunning /\ ~SelectModel(asm.cfg).threw => asm.phase # "raised"

\* C4: when the structured response is not valid JSON, then for every text
\* the free-text request returns the report has at least one section and a
\* non-empty summary.
C4_FallbackNonEmpty ==
  AsmRunning /\ asm.phase = "returned" /\ Len(asm.requests) = 2
  /\ asm.primary.kind = "text" /\ asm.primary.json.type = "malformed" =>
    /\ Len(asm.result.sections) >= 1
    /\ asm.result.summary # EmptyText

Distinct(s) == \A i, j \in 1..Len(s) : i # j => s[i] # s[j]

IsQueryCall == fin.op = "generateSearchQueries"

\* C5: for every topic and depth, query generation returns exactly 3 (basic),
\* 5 (intermediate or unspecified) or 7 (comprehensive) queries, all non-empty
\* strings and pairwise distinct, at least one containing the topic, on the
\* model path and on the template path alike.
C5_QueryContract ==
  IsQueryCall =>
    /\ Len(fout.value) = QueryCount(fin.depth)
    /\ \A i \in 1..Len(fout.value) :
         fout.value[i].type = "string" /\ fout.value[i].words # <<>>
    /\ Distinct(fout.value)
    /\ \E i \in 1..Len(fout.value) : fin.topic \in Range(fout.value[i].words)

\* the model call gave no usable array: no provider, timeout, provider
\* failure, malformed JSON, a non-array value or an empty array
FailedQueryInput(cfg, outcome) ==
  \/ ~(cfg.geminiApiKey \/ cfg.openaiApiKey \/ cfg.anthropicApiKey)
  \/ outcome.kind \in {"timeout", "error"}
  \/ outcome.kind = "text" /\ outcome.json.type # "array"
  \/ outcome.kind = "text" /\ outcome.json.type = "array"
     /\ outcome.json.items = <<>>

FailingQueryOutcomes ==
  {o \in QueryOutcomes :
     o.kind = "text" /\ o.json.type = "array" => o.json.items = <<>>}

\* C6: query generation never throws; when the model call fails (timeout,
\* provider failure, malformed JSON, empty or non-array value) the result is
\* the template list, the same for every failure with the same topic and
\* depth, and the topic itself is one of the returned queries.
C6_QueryFallback ==
  IsQueryCall =>
    /\ ~fout.threw
    /\ FailedQueryInput(fin.cfg, fin.outcome) =>
         /\ fout.path = "fallback"
         /\ Str(<<fin.topic>>) \in Range(fout.value)
         /\ \A i \in 1..Len(fout.value) : fin.topic \in Range(fout.value[i].words)
         /\ \A o \in FailingQueryOutcomes, p \in BOOLEAN :
              GenerateSearchQueries(fin.topic, fin.depth,
                                    [fin.cfg EXCEPT !.geminiApiKey = p], o).value
                = fout.value

C6_Witness ==
  /\ IsQueryCall
  /\ fin.cfg.geminiApiKey
  /\ fin.outcome.kind = "text" /\ fin.outcome.json.type = "malformed"
  /\ fout.path = "fallback"
  /\ fout.value[1] = Str(<<fin.topic>>)

IsSearchCall == fin.op = "search"

NormalizedUrls(results) == {Normalize(results[i].url) : i \in 1..Len(results)}

\* C7: in one search() call a rejected backend contributes nothing and does
\* not keep the others' results out: every result of a fulfilled backend is
\* returned (under its normalized URL) unless the budget is exhausted, and
\* every returned entry comes from a fulfilled backend.
C7_BackendsIsolated ==
  IsSearchCall =>
    /\ \A i \in 1..Len(fin.outcomes) :
         fin.outcomes[i].status = "fulfilled" =>
           \A r \in Range(fin.outcomes[i].value) :
             \/ Len(fout.data) = fin.maxResults
             \/ Normalize(r.url) \in NormalizedUrls(fout.data)
    /\ \A d \in Range(fout.data) :
         \E i \in 1..Len(fin.outcomes) :
           /\ fin.outcomes[i].status = "fulfilled"
           /\ \E r \in Range(fin.outcomes[i].value) : r.url = d.url

C7_Witness ==
  /\ IsSearchCall
  /\ Len(fin.outcomes) = 3
  /\ fin.outcomes[1].status = "rejected"
  /\ fin.outcomes[2].status = "fulfilled" /\ Len(fin.outcomes[2].value) = 1
  /\ fin.outcomes[3].status = "rejected"
  /\ fout.success /\ Len(fout.data) = 1

\* C8: search() reports failure exactly when the backends together returned
\* no result; the failure is the value success = false with a message, and
\* no exception leaves search().
C8_SearchFailsSoft ==
  IsSearchCall =>
    /\ ~fout.threw
    /\ fout.success <=> TotalResults(fin.outcomes) > 0
    /\ ~fout.success => fout.error # None /\ fout.data = <<>>

C8_Witness ==
  /\ IsSearchCall
  /\ \A i \in 1..Len(fin.outcomes) :
       fin.outcomes[i].status = "rejected" \/ fin.outcomes[i].value = <<>>
  /\ \E i \in 1..Len(fin.outcomes) : fin.outcomes[i].status = "rejected"
  /\ ~fout.success

\* C9: the list search() returns has no two entries with the same normalized
\* URL and is in non-increasing relevanceScore order.
C9_RankedUnique ==
  IsSearchCall /\ fout.success =>
    /\ \A i, j \in 1..Len(fout.data) :
         i # j => Normalize(fout.data[i].url) # Normalize(fout.data[j].url)
    /\ \A i \in 1..(Len(fout.data) - 1) :
         fout.data[i].relevanceScore >= fout.data[i + 1].relevanceScore

C9_Witness ==
  /\ IsSearchCall /\ fout.success
  /\ Len(fout.data) = 2
  /\ fout.data[1].relevanceScore > fout.data[2].relevanceScore
  /\ \E i \in 1..Len(fin.outcomes) :
       /\ fin.outcomes[i].status = "fulfilled"
       /\ \E a, b \in 1..Len(fin.outcomes[i].value) :
            /\ a < b
            /\ fin.outcomes[i].value[a].url # fin.outcomes[i].value[b].url
            /\ Normalize(fin.outcomes[i].value[a].url)
                 = Normalize(fin.outcomes[i].value[b].url)

ExReturned == ExRunning /\ ex.phase = "returned"

\* URLs of the call whose fetch failed, and those fetched
FailedFetches == {k \in DOMAIN ex.slots : ~ex.world[k][1].ok}
Fetched == {k \in DOMAIN ex.slots : ex.world[k][1].ok}

PlaceholderReturned ==
  \A k \in FailedFetches :
    /\ ~ex.slots[k].threw
    /\ ex.slots[k].data.metadata.wordCount = 0
    /\ ex.slots[k].data.url = ex.urls[k]

NothingLeftToAwait ==
  /\ ExReturned => DOMAIN ex.slots = 1..Len(ex.urls) /\ ex.pending = {}
  /\ ExRunning /\ DOMAIN ex.slots = 1..Len(ex.urls) => ex.pending = {}

\* C10, with the count as documented: an unreachable URL yields a zero-word placeholder, not an
\* error; extractMultiple over N URLs of which K are unreachable returns at
\* least N - K items, and returns once every batch has settled.
C10_AtLeastReachable ==
  /\ ExRunning => PlaceholderReturned /\ NothingLeftToAwait
  /\ ExReturned =>
       Len(ex.results) >= Len(ex.urls) - Cardinality(FailedFetches)

\* C10, with the count as implemented: an unreachable URL yields a zero-word
\* placeholder, not an error; extractMultiple over N URLs of which K are
\* unreachable returns at most N - K items, namely the fetched pages whose
\* content is longer than 100 characters, in URL order, and returns once
\* every batch has settled.
C10_LongFetchedOnly ==
  /\ ExRunning => PlaceholderReturned /\ NothingLeftToAwait
  /\ ExReturned =>
       /\ Len(ex.results) <= Len(ex.urls) - Cardinality(FailedFetches)
       /\ Len(ex.results)
            = Cardinality({k \in Fetched : ex.world[k][1].len > 100})
       /\ \A i \in 1..Len(ex.results) :
            /\ \E k \in Fetched :
                 ex.results[i].url = ex.urls[k] /\ ex.world[k][1].len > 100
            /\ \A j \in 1..Len(ex.results) :
                 i < j => ex.results[i].url[4] < ex.results[j].url[4]

C10_Witness ==
  /\ ExReturned
  /\ Len(ex.urls) = 3
  /\ ex.maxConcurrent = 2
  /\ Cardinality(FailedFetches) = 1
  /\ Len(ex.results) = 1

\* C11: a URL whose first fetch fails is fetched a second time, and the
\* zero-word placeholder is returned only after both attempts have failed.
C11_RetriedOnce ==
  ExRunning =>
    \A k \in FailedFetches :
      /\ ex.slots[k].tries = 2
      /\ ex.slots[k].success <=> ex.world[k][2].ok

IsAnalyzeCall == fin.op = "analyzeContent"

\* the model answered in time with more than 100 characters
UsableAnalysis(cfg, outcome) ==
  /\ cfg.geminiApiKey \/ cfg.openaiApiKey \/ cfg.anthropicApiKey
  /\ outcome.kind = "text" /\ outcome.length > 100

\* C12: analyzeContent never throws; it returns the model's output only if
\* that output arrived within the time budget and is longer than 100
\* characters; on timeout, on any error (no provider included) or on shorter
\* output it returns the fallback summary, which is made of the topic, the
\* number of contents and the titles of the first three contents only.
C12_AnalysisFallsBack ==
  IsAnalyzeCall =>
    /\ ~fout.threw
    /\ fout.source = "model" <=> UsableAnalysis(fin.cfg, fin.outcome)
    /\ ~UsableAnalysis(fin.cfg, fin.outcome) =>
         /\ fout.source = "fallback"
         /\ fout.topic = fin.topic
         /\ fout.count = Len(fin.content)
         /\ fout.titles = [i \in 1..Min(3, Len(fin.content)) |-> fin.content[i].title]

C12_Witness ==
  /\ IsAnalyzeCall
  /\ fin.cfg.anthropicApiKey
  /\ fin.outcome.kind = "timeout"
  /\ Len(fin.content) = 4
  /\ fout.source = "fallback" /\ Len(fout.titles) = 3

IsMarkdownCall == fin.op = "generateMarkdown"

\* the markers [n] in the text of a section
MarkersOf(text) ==
  {text[i][j] : <<i, j>> \in {p \in (1..Len(text)) \X (1..3) : p[2] <= Len(text[p[1]])}}
  \cap CitationMarkers

\* the numbers on the reference line printed for the k-th section
PrintedNumbers(k) ==
  UNION {Range(fout.sections[k][i]) \ {"*[References:", "]*"} :
           i \in {j \in 1..Len(fout.sections[k]) :
                    fout.sections[k][j] # <<>>
                    /\ fout.sections[k][j][1] = "*[References:"}}

\* C13: for every marker [n] in a section's text, if 1 <= n <= len(citations)
\* the section's citation list holds the id of citations[n-1] and the
\* renderer prints n for it; otherwise the renderer prints '?' for it.
C13_MarkersResolve ==
  IsMarkdownCall =>
    \A k \in 1..Len(fin.report.sections) :
      \A tok \in MarkersOf(fin.report.sections[k].content) :
        LET n == MarkerNumber(tok)
        IN  IF 1 <= n /\ n <= Len(fin.report.citations)
            THEN /\ fin.report.citations[n].id \in Range(fin.report.sections[k].citations)
                 /\ DecTok(n) \in PrintedNumbers(k)
            ELSE "?" \in PrintedNumbers(k)

\* number of lines of the file that are headings at the ## level
HeadingCount(file) ==
  Cardinality({i \in 1..Len(file) : file[i] # <<>> /\ file[i][1] = "##"})

\* number of lines that follow the References heading
ReferenceEntries(file) ==
  LET at == CHOOSE i \in 1..Len(file) :
              /\ file[i] = <<"##", "References">>
              /\ \A j \in (i + 1)..Len(file) : file[j] # <<"##", "References">>
  IN  Len(file) - at

\* C14: the rendered Markdown has exactly len(sections) + 2 headings at the
\* ## level, and its References block has exactly len(citations) entries.
C14_HeadingCount ==
  IsMarkdownCall =>
    /\ HeadingCount(fout.file) = Len(fin.report.sections) + 2
    /\ ReferenceEntries(fout.file) = Len(fin.report.citations)

\* step 5 of the run has returned a report
Assembled == End("Assemble") \in Range(log)

\* the Markdown files the run has written
MarkdownFiles ==
  {outputPaths[i].file : i \in {j \in 1..Len(outputPaths) :
                                  outputPaths[j].format = "markdown"}}

\* the number printed after "Number of Sources:"
NumberOfSources(file) ==
  LET at == CHOOSE i \in 1..Len(file) : file[i][1] = "**Number of Sources:**"
  IN  file[at][2]

\* C15: in every run the citations of the report are derived one-to-one and
\* in order from the extracted contents that survived filtering
\* (citations[i].id = cit-i, citations[i].url = contents[i].url), on the
\* structured and on the free-text path, and in the Markdown file the number
\* of sources and the number of References entries both equal that count.
C15_CitationsFromContent ==
  Assembled =>
    /\ Len(report.citations) = Len(extractedContent)
    /\ \A i \in 1..Len(extractedContent) :
         /\ report.citations[i].id = <<"cit", i>>
         /\ report.citations[i].url = extractedContent[i].url
    /\ \A c \in Range(extractedContent) : c.metadata.wordCount >= 50
    /\ \A file \in MarkdownFiles :
         /\ NumberOfSources(file) = DecTok(Len(extractedContent))
         /\ ReferenceEntries(file) = Len(extractedContent)

C15_Witness ==
  /\ pc = "Complete"
  /\ Len(extractedContent) = 2
  /\ asm.requests = <<"structured", "free text">>
  /\ MarkdownFiles # {}

\* the formats of the files the run has written
WrittenFormats == {outputPaths[i].format : i \in 1..Len(outputPaths)}

\* C16: the files a run produces are those of the formats requested in the
\* topic's outputFormats; in particular a completed run writes no file of a
\* format the topic did not request, whatever formats are configured.
C16_OnlyRequestedFormats ==
  pc = "Complete" => WrittenFormats \subseteq Range(researchTopic.outputFormats)
----------------------------------------------------------------------------
(* TelegramBotHandler.executeResearch *)

RunIds == 1..Len(bot.runs)

TimedOut(r) == bot.runs[r].cause = "timeout"

\* the step at which the 180 s timer wins the race for run r
TimeoutTrips(r) == ~TimedOut(r) /\ bot'.runs[r].cause = "timeout"

C17_Failed ==
  \A r \in RunIds :
    TimedOut(r) =>
      /\ bot.runs[r].handler = "failed"
      /\ \E i \in 1..Len(bot.runs[r].sent) : bot.runs[r].sent[i] = "failed"
      /\ \A i \in 1..Len(bot.runs[r].sent) :
            bot.runs[r].sent[i] \notin {"complete", "document", "allDone"}

C17_Trip ==
  \A r \in RunIds :
    TimeoutTrips(r) =>
      /\ bot'.sessions[bot.runs[r].chat].currentResearch = NoResearch
      /\ bot'.runs[r].pipeline = "running"
      /\ bot'.runs[r].sent = Append(bot.runs[r].sent, "failed")

\* C17: when the 180 s timer fires before the pipeline has settled, the run
\* fails: the failure message is sent to the chat of the run, the session's
\* currentResearch is cleared, the pipeline is left running, and no completion
\* message or report file of that run is ever sent, whatever the pipeline
\* does afterwards.
C17_TimeoutFailsRun == []C17_Failed /\ [][C17_Trip]_vars

\* a run timed out and its pipeline resolved with report files afterwards
C17_Witness ==
  \E r \in RunIds :
    /\ TimedOut(r)
    /\ bot.runs[r].pipeline = "resolved"
    /\ Len(bot.runs[r].paths) = 2

\* the run has produced its completion or failure message
SettledAt(r, i) == bot.runs[r].sent[i] \in {"complete", "failed"}

\* C18: once the completion or failure message of a run has been sent, no
\* periodic status message of that run follows it.
C18_NoStatusAfterSettle ==
  \A r \in RunIds :
    \A i \in 1..Len(bot.runs[r].sent), j \in 1..Len(bot.runs[r].sent) :
      (i < j /\ SettledAt(r, i)) => bot.runs[r].sent[j] # "status"

\* the pipelines of a chat that research() has started and not yet settled
Executing(chat) ==
  {r \in RunIds : bot.runs[r].chat = chat /\ bot.runs[r].pipeline = "running"}

\* C20: for each chat at most one research pipeline is executing at any time.
C20_OnePipelinePerChat ==
  \A chat \in SessionChats : Cardinality(Executing(chat)) <= 1

----------------------------------------------------------------------------
(* TelegramBot.sendProgressUpdate *)

\* C19: every progress notification emitted by a run is delivered to the chat
\* that started the run, whatever the runs of other chats do meanwhile;
\* none is redirected to another chat and none is dropped.
C19_ProgressToOwnChat ==
  \A i \in 1..Len(tg.replies) :
    tg.replies[i].kind = "progress" => tg.replies[i].to = tg.replies[i].run

----------------------------------------------------------------------------
(* TelegramBotHandler.handleCancel *)

\* 'Research cancelled' was sent for run r as its i-th message
CancelledAt(r, i) == bot.runs[r].sent[i] = "cancelled"

\* C21: once /cancel has been answered with 'Research cancelled', the
\* cancelled run sends no completion message and no report file.
C21_CancelledRunIsSilent ==
  \A r \in RunIds :
    \A i \in 1..Len(bot.runs[r].sent), j \in 1..Len(bot.runs[r].sent) :
      (i < j /\ CancelledAt(r, i)) =>
        bot.runs[r].sent[j] \notin {"complete", "document", "allDone"}

----------------------------------------------------------------------------
(* AutoResearchAgent.notifyProgress *)

\* the start and completion notification of each stage
StartNote(stage) ==
  CASE stage = "QueryGen" -> "Step1Start" [] stage = "Search" -> "Step2Start"
    [] stage = "Extract" -> "Step3Start" [] stage = "Analyze" -> "Step4Start"
    [] stage = "Assemble" -> "Step5Start" [] stage = "Render" -> "Step6Start"

DoneNote(stage) ==
  CASE stage = "QueryGen" -> "Step1Done" [] stage = "Search" -> "Step2Done"
    [] stage = "Extract" -> "Step3Done" [] stage = "Analyze" -> "Step4Done"
    [] stage = "Assemble" -> "Step5Done" [] stage = "Render" -> "CompleteNote"

StageOrder == <<"QueryGen", "Search", "Extract", "Analyze", "Assemble", "Render">>

\* what a complete run with a callback logs
AroundStage(stage) ==
  <<Notified(StartNote(stage)), Begin(stage), End(stage), Notified(DoneNote(stage))>>

CanonicalLog ==
  <<Notified("Starting")>> \o AroundStage(StageOrder[1]) \o AroundStage(StageOrder[2])
    \o AroundStage(StageOrder[3]) \o AroundStage(StageOrder[4])
    \o AroundStage(StageOrder[5]) \o AroundStage(StageOrder[6])

C22_State ==
  /\ progressCallback =>
       /\ IsPrefix(log, CanonicalLog)
       /\ pc = "Complete" =>
            log = CanonicalLog /\ log[Len(log)] = Notified("CompleteNote")
       /\ \A stage \in StageNames :
            End(stage) \notin Range(log) => Notified(DoneNote(stage)) \notin Range(log)
  /\ ~progressCallback =>
       /\ IsPrefix(log, CanonicalEvents)
       /\ pc = "Complete" => log = CanonicalEvents

\* C22: with a callback, every stage is preceded by its start notification
\* and followed by its completion notification, in stage order, and a
\* successful run ends with the 'Complete!' notification; a stage that did
\* not end has no completion notification, nor has any later stage; without
\* a callback the same stages run and nothing is notified.
C22_NotificationsAroundStages == pc # "Idle" => C22_State

\* a run with a callback failed in assembly after four completed stages
C22_Witness ==
  /\ progressCallback /\ pc = "Error"
  /\ Begin("Assemble") \in Range(log)
  /\ Notified("Step4Done") \in Range(log)
  /\ Notified("Step5Done") \notin Range(log)

----------------------------------------------------------------------------
(* validateConfig / selectModel *)

\* the configuration has been loaded and holds no model provider key
NoProviderConfigured ==
  pc # "Idle" /\ ~(config.openaiApiKey \/ config.anthropicApiKey \/ config.geminiApiKey)

\* C23: when no model provider is configured the failure is raised at once
\* and no run starts: no model, search or fetch request is ever issued and no
\* stage begins.
C23_NoProviderNeverStarts ==
  NoProviderConfigured =>
    /\ pc = "LoadFailed"
    /\ calls = [llm |-> 0, search |-> 0, fetch |-> 0]
    /\ log = <<>>

\* the load failed for a configuration with a search key and no provider
C23_Witness ==
  /\ pc = "LoadFailed"
  /\ NoProviderConfigured
  /\ config.serperApiKey

----------------------------------------------------------------------------
(* retryWithBackoff as the search backends call it *)

IsBackendCall == fin.op = "searchBackend"

Retryable(attempt) == attempt.kind \in {"timeout", "connection reset", "http 5xx"}

\* C24: a backend call makes at most 3 attempts, waits 500 ms and then 750 ms
\* between them, stops at the first success, makes another attempt only after
\* a retryable failure, and after the last failed attempt reports the error
\* of that attempt.
C24_RetryPolicy ==
  IsBackendCall =>
    /\ fout.tries \in 1..3
    /\ fout.delays = SubSeq(<<500, 750>>, 1, fout.tries - 1)
    /\ \A k \in 1..(fout.tries - 1) :
         ~fin.attempts[k].ok /\ Retryable(fin.attempts[k])
    /\ ~fout.threw => fin.attempts[fout.tries].ok
    /\ fout.threw => ~fin.attempts[fout.tries].ok /\ fout.error = fin.attempts[fout.tries]

----------------------------------------------------------------------------
(* the two content filters: extractMultiple, then AutoResearchAgent.extractContent *)

\* the URLs of the call whose item reaches analysis and citation building
Survivors ==
  {k \in DOMAIN ex.slots :
     \E i \in 1..Len(FilterByWordCount(ex.results)) :
       FilterByWordCount(ex.results)[i].url = ex.urls[k]}

\* C25: every item that reaches analysis has at least 50 words and between
\* 100 and 50,000 characters, and a fetched item is discarded exactly when it
\* has fewer than 50 words or fewer than 100 characters.
C25_DiscardedExactlyWhenShort ==
  ExReturned =>
    /\ \A i \in 1..Len(FilterByWordCount(ex.results)) :
         LET c == FilterByWordCount(ex.results)[i]
         IN  /\ c.metadata.wordCount >= 50
             /\ c.content.length >= 100
             /\ c.content.length <= 50000
    /\ \A k \in Fetched :
         k \notin Survivors <=>
           (ex.world[k][1].words < 50 \/ ex.world[k][1].len < 100)

----------------------------------------------------------------------------
(* generateReport: when the free-text request is issued *)

AsmSettled == AsmRunning /\ asm.phase \in {"returned", "raised", "pending"}

CountOf(requests, what) == Len(SelectSeq(requests, LAMBDA r : r = what))

FreeTextIssued == CountOf(asm.requests, "free text") > 0

\* the structured request timed out, failed, or answered with text that is
\* not JSON
PrimaryFailedAsListed ==
  \/ asm.primary.kind \in {"timeout", "error"}
  \/ asm.primary.kind = "text" /\ asm.primary.json.type = "malformed"

\* the try block of generateReport raised
PrimaryRaised ==
  \/ asm.primary.kind = "no provider"
  \/ PrimaryFailedAsListed
  \/ asm.primary.kind = "text" /\ asm.primary.json.type = "null"
  \/ /\ asm.primary.kind = "text" /\ asm.primary.json.type = "object"
     /\ \E name \in CitedFields \cap DOMAIN asm.primary.json.fields :
          asm.primary.json.fields[name] = NotAString

ProviderConfigured == ~SelectModel(asm.cfg).threw

----------------------------------------------------------------------------
(* buildReportFromStructure *)

\* generateReport returned the report built from the structured response
StructuredReturned ==
  AsmRunning /\ asm.phase = "returned" /\ asm.requests = <<"structured">>

SectionTitles(rep) == [i \in 1..Len(rep.sections) |-> rep.sections[i].title[1]]

\* C27: on the structured path the abstract is kept in report.summary only;
\* no section of the report is titled Abstract.
C27_AbstractIsSummaryOnly ==
  StructuredReturned =>
    /\ FieldOr(asm.primary.json, "abstract") # EmptyText =>
         asm.result.summary = FieldOr(asm.primary.json, "abstract")
    /\ "Abstract" \notin Range(SectionTitles(asm.result))

CanonicalTitles ==
  <<"Abstract", "Introduction", "Literature Review", "Methodology",
    "Findings and Results", "Discussion and Analysis", "Conclusion",
    "Recommendations">>

\* the structured request answered with a JSON object
ObjectAnswered ==
  /\ AsmRunning /\ asm.phase # "primary"
  /\ asm.primary.kind = "text" /\ asm.primary.json.type = "object"

\* every cited field of the object is a string or missing
StringFields ==
  \A name \in CitedFields \cap DOMAIN asm.primary.json.fields :
    asm.primary.json.fields[name] # NotAString

FieldNames ==
  <<"abstract", "introduction", "literature_review", "methodology",
    "findings", "discussion", "conclusion", "recommendations">>

\* the field of the object, or the empty text when it is missing
Given(name) ==
  IF name \in DOMAIN asm.primary.json.fields
  THEN asm.primary.json.fields[name] ELSE EmptyText

NonEmptyFields == SelectSeq(FieldNames, LAMBDA name : Given(name) # EmptyText)

EightSections ==
  /\ asm.phase = "returned" /\ asm.requests = <<"structured">>
  /\ SectionTitles(asm.result) = CanonicalTitles
  /\ \A i \in 1..8 : asm.result.sections[i].content = Given(FieldNames[i])
  /\ asm.result.summary =
       IF NonEmptyFields = <<>> THEN EmptyText
       ELSE IF Given("abstract") # EmptyText THEN Given("abstract")
       ELSE Substring(Given(NonEmptyFields[1]), 500)

----------------------------------------------------------------------------
(* parseReportResponse *)

\* generateReport returned the report parsed from the free-text response
FallbackReturned ==
  /\ AsmRunning /\ asm.phase = "returned"
  /\ asm.requests = <<"structured", "free text">>

\* the line is taken as a section heading: it does not mention the abstract
\* and one of the two heading patterns matches it
RecognisedHeading(line) ==
  ~MentionsAbstract(Trim(line)) /\ MainHeaderMatch(Trim(line)).match

HeadingLines(response) ==
  {i \in 1..Len(response) : RecognisedHeading(response[i])}

\* the ids of the [n] markers that occur in the lines
MarkerIds(lines) ==
  UNION {{<<"cit", MarkerNumber(lines[i][j])>> :
            j \in {k \in 1..Len(lines[i]) : lines[i][k] \in CitationMarkers}} :
         i \in 1..Len(lines)}

\* C29: when no line of the free-text response is taken as a section
\* heading, the parsed report has exactly one section, titled 'Overview',
\* whose content is the whole response and whose citation list holds every
\* [n] marker that occurs in the response.
C29_NoHeadingOneOverview ==
  FallbackReturned /\ HeadingLines(asm.fallback.text) = {} =>
    /\ Len(asm.result.sections) = 1
    /\ asm.result.sections[1].title = <<"Overview">>
    /\ asm.result.sections[1].content = asm.fallback.text
    /\ {asm.result.sections[1].citations[i] :
          i \in 1..Len(asm.result.sections[1].citations)}
         = MarkerIds(asm.fallback.text)

\* a response of an abstract line and two lines of cited prose, no line of
\* which opens a section, came back as the single Overview section
C29_Witness ==
  /\ FallbackReturned
  /\ asm.fallback.text = << <<"##", NumberDot, "Abstract">>,
                            <<"words", "[3]", "[1]">>, <<"words", "[1]">> >>
  /\ HeadingLines(asm.fallback.text) = {}
  /\ Len(asm.result.sections) = 1
  /\ asm.result.sections[1].title = <<"Overview">>
  /\ Len(asm.result.sections[1].citations) = 3

\* the non-blank lines among lines lo..hi of the response
NonBlankLines(response, lo, hi) ==
  SelectSeq(SubSeq(response, lo, hi), LAMBDA line : Trim(line) # <<>>)

\* the position of the k-th heading line, and of the line that ends its
\* section
HeadingAt(response, k) ==
  CHOOSE i \in HeadingLines(response) :
    Cardinality({j \in HeadingLines(response) : j <= i}) = k

SectionEnd(response, k) ==
  IF k < Cardinality(HeadingLines(response))
  THEN HeadingAt(response, k + 1) - 1 ELSE Len(response)

\* C30: in the free-text parser every non-blank line before the first
\* heading is collected into the abstract, which is the report summary,
\* and every non-blank non-heading line after a heading is appended to the
\* content of the section that the most recent heading opened.
C30_LinesGoToAbstractOrSection ==
  FallbackReturned /\ HeadingLines(asm.fallback.text) # {} =>
    LET response == asm.fallback.text
        before   == NonBlankLines(response, 1, HeadingAt(response, 1) - 1)
    IN  /\ before # <<>> => asm.result.summary = before
        /\ Len(asm.result.sections) = Cardinality(HeadingLines(response))
        /\ \A k \in 1..Len(asm.result.sections) :
              asm.result.sections[k].content =
                NonBlankLines(response, HeadingAt(response, k) + 1,
                              SectionEnd(response, k))

----------------------------------------------------------------------------
(* Finer headings and lost lines in the free-text parsers *)

\* AIService.generateReport returned the report parsed from the response
AcademicReturned == fin # Idle /\ fin.op = "academicReport"

\* '### Title' or a lettered 'A. Title'
FinerHeading(line) ==
  ~MentionsAbstract(Trim(line)) /\ SubHeaderMatch(Trim(line)).match

\* '## N. Title' or a numbered 'N. TITLE'
TopHeading(line) == RecognisedHeading(line) /\ ~FinerHeading(line)

TopHeadingLines(response) ==
  {i \in 1..Len(response) : TopHeading(response[i])}

\* the finer heading lines that have a section to nest under
NestedHeadingLines(response) ==
  {i \in 1..Len(response) :
     /\ FinerHeading(response[i])
     /\ \E j \in TopHeadingLines(response) : j < i}

SubsectionsOf(section) ==
  IF "subsections" \in DOMAIN section THEN section.subsections ELSE <<>>

RECURSIVE SubsectionCount(_)
SubsectionCount(sections) ==
  IF sections = <<>> THEN 0
  ELSE Len(SubsectionsOf(Head(sections))) + SubsectionCount(Tail(sections))

\* every top heading opened one section and every finer heading under a
\* section opened one subsection
FinerStartsSubsection(response, result) ==
  TopHeadingLines(response) # {} =>
    /\ Len(result.sections) = Cardinality(TopHeadingLines(response))
    /\ SubsectionCount(result.sections) = Cardinality(NestedHeadingLines(response))

\* C31: in the free-text parser a line matching the finer heading pattern
\* ('### Title' or a lettered 'A. Title') starts a subsection nested under
\* the current section and never starts a new top-level section.
C31_FinerHeadingStartsSubsection ==
  /\ FallbackReturned => FinerStartsSubsection(asm.fallback.text, asm.result)
  /\ AcademicReturned => FinerStartsSubsection(fin.response, fout)

\* a line that is a heading of some kind: a main header, a finer header, or a
\* line made only of the words that announce the abstract
AnyHeading(line) ==
  \/ MainHeaderMatch(Trim(line)).match
  \/ SubHeaderMatch(Trim(line)).match
  \/ /\ Trim(line) # <<>>
     /\ \A i \in 1..Len(Trim(line)) : Trim(line)[i] \in AbstractWords

BodyLine(line) == Trim(line) # <<>> /\ ~AnyHeading(line)

Occurrences(lines, line) ==
  Cardinality({i \in 1..Len(lines) : lines[i] = line})

\* the lines collected as the abstract: the summary, unless it is the
\* leading part of the raw response
AbstractOf(response, result) ==
  IF result.summary = Substring(response, SummaryChars) THEN <<>>
  ELSE result.summary

\* the content of the sections and of their subsections, in order
RECURSIVE ContentOf(_)
ContentOf(sections) ==
  IF sections = <<>> THEN <<>>
  ELSE Head(sections).content \o ContentOf(SubsectionsOf(Head(sections)))
       \o ContentOf(Tail(sections))

\* every body line of the response is kept exactly as often as it occurs
NoLineLost(response, result) ==
  \A line \in {response[i] : i \in 1..Len(response)} :
    BodyLine(line) =>
      Occurrences(response, line)
        = Occurrences(AbstractOf(response, result), line)
          + Occurrences(ContentOf(result.sections), line)

\* C32: the free-text parser loses no content: every non-blank line that is
\* not a heading ends up in exactly one place, the abstract or the content
\* of exactly one section, also when it merely contains the word 'abstract'
\* or 'executive summary'.
C32_NoContentLost ==
  /\ FallbackReturned => NoLineLost(asm.fallback.text, asm.result)
  /\ AcademicReturned => NoLineLost(fin.response, fout)

----------------------------------------------------------------------------
(* Ranking, deduplication and truncation *)

\* the results of the fulfilled backends of the search() call, with the
\* score prioritizeAndDeduplicate gives each
BoostedInputs ==
  UNION {{[r EXCEPT !.relevanceScore = r.relevanceScore + Boost(r)] :
            r \in Range(fin.outcomes[i].value)} :
         i \in {j \in 1..Len(fin.outcomes) : fin.outcomes[j].status = "fulfilled"}}

DroppedInputs == BoostedInputs \ Range(fout.data)

WithinBudgetBestOfDuplicates ==
  /\ Len(fout.data) <= fin.maxResults
  /\ Range(fout.data) \subseteq BoostedInputs
  /\ \A d \in Range(fout.data), r \in BoostedInputs :
       Normalize(r.url) = Normalize(d.url) => r.relevanceScore <= d.relevanceScore

\* C33 as stated: search() returns at most resultBudget results; for each
\* normalized URL the retained entry has the highest boosted score among its
\* duplicates; and no dropped result with a different normalized URL has a
\* higher score than a retained one.
C33_NoDroppedOutscoresRetained ==
  IsSearchCall /\ fout.success =>
    /\ WithinBudgetBestOfDuplicates
    /\ \A r \in DroppedInputs, d \in Range(fout.data) :
         Normalize(r.url) # Normalize(d.url) => r.relevanceScore <= d.relevanceScore

\* C33, amended: search() returns at most resultBudget results; for each
\* normalized URL the retained entry has the highest boosted score among its
\* duplicates; and no result whose normalized URL is not retained at all has
\* a higher score than a retained one.
C33_NoUnretainedUrlOutscoresRetained ==
  IsSearchCall /\ fout.success =>
    /\ WithinBudgetBestOfDuplicates
    /\ \A r \in BoostedInputs, d \in Range(fout.data) :
         Normalize(r.url) \notin NormalizedUrls(fout.data)
           => r.relevanceScore <= d.relevanceScore

\* the budget was filled, a lower-scored duplicate of a retained entry was
\* dropped although it came first, and a result of another URL was cut off
C33_Witness ==
  /\ IsSearchCall /\ fout.success
  /\ Len(fout.data) = fin.maxResults /\ fin.maxResults = 2
  /\ \E r \in DroppedInputs :
       Normalize(r.url) \notin NormalizedUrls(fout.data)
  /\ \E r \in DroppedInputs :
       /\ Normalize(r.url) = Normalize(fout.data[1].url)
       /\ r.relevanceScore < fout.data[1].relevanceScore
       /\ fin.outcomes[1].status = "fulfilled"
       /\ Len(fin.outcomes[1].value) > 0
       /\ r.url = fin.outcomes[1].value[1].url
       /\ r.url # fout.data[1].url

----------------------------------------------------------------------------
(* The source list handed from the search stage to extraction *)

\* step 2 of research() has returned
SearchDone == \E i \in 1..Len(log) : log[i] = End("Search")

\* C34: the source list the search stage hands to extraction, after the
\* results of all queries are merged, has at most maxSources entries, no two
\* of which share a normalized URL, and is in non-increasing relevanceScore
\* order.
C34_MergedListRankedUnique ==
  SearchDone =>
    /\ Len(searchResults) <= EffectiveMaxSources(researchTopic, config)
    /\ \A i, j \in 1..Len(searchResults) :
         i # j => Normalize(searchResults[i].url) # Normalize(searchResults[j].url)
    /\ \A i \in 1..(Len(searchResults) - 1) :
         searchResults[i].relevanceScore >= searchResults[i + 1].relevanceScore

----------------------------------------------------------------------------
(* Batching of extractMultiple *)

\* the URLs whose extractContent call has started
Started == DOMAIN ex.slots \cup ex.pending

\* C35: extractMultiple keeps at most maxConcurrent fetches in flight at any
\* time: it processes the URLs in consecutive batches of that size and
\* starts a batch only after every fetch of the previous batch has settled.
C35_BatchesOfBoundedSize ==
  ExRunning =>
    /\ Cardinality(ex.pending) <= ex.maxConcurrent
    /\ ex.i % ex.maxConcurrent = 0
    /\ ex.pending \subseteq (ex.i + 1)..(ex.i + ex.maxConcurrent)
    /\ ex.pending # {} => 1..ex.i \subseteq DOMAIN ex.slots
    /\ \E n \in 0..Len(ex.urls) : Started = 1..n
    /\ ex.pending \cap DOMAIN ex.slots = {}

\* the second batch of a three-URL call with window two is in flight, after
\* both fetches of the first batch have settled
C35_Witness ==
  /\ ExRunning /\ pc = "Idle"
  /\ Len(ex.urls) = 3 /\ ex.maxConcurrent = 2
  /\ ex.phase = "await" /\ ex.i = 2
  /\ ex.pending = {3} /\ DOMAIN ex.slots = {1, 2}

----------------------------------------------------------------------------
(* Order of the extracted items and of the citations *)

\* the positions in the URL list of the pages extractMultiple keeps, and of
\* those that also pass the word-count filter of the agent, in list order
KeptPositions(minWords) ==
  SelectSeq([k \in 1..Len(ex.urls) |-> k],
            LAMBDA k : /\ ex.slots[k].success
                       /\ ex.slots[k].data.content.length > 100
                       /\ ex.slots[k].data.metadata.wordCount >= minWords)

AssembleDone == \E i \in 1..Len(log) : log[i] = End("Assemble")

\* C36: extractMultiple returns the surviving items in the order of the
\* input URLs whatever the order in which the fetches complete, so the
\* citation number of each source is the same for every interleaving of
\* fetch completions: citation j is the j-th surviving URL of the list.
C36_OrderOfInputUrls ==
  /\ ExReturned =>
       /\ Len(ex.results) = Len(KeptPositions(0))
       /\ \A i \in 1..Len(ex.results) :
            ex.results[i].url = ex.urls[KeptPositions(0)[i]]
  /\ AssembleDone =>
       /\ Len(report.citations) = Len(KeptPositions(50))
       /\ \A j \in 1..Len(report.citations) :
            /\ report.citations[j].id = <<"cit", j>>
            /\ report.citations[j].url = ex.urls[KeptPositions(50)[j]]

\* the fetch of the second URL completed before that of the first, both
\* pages survived, and the report cites them in list order
C36_Witness ==
  /\ AssembleDone /\ ExReturned
  /\ ex.settled = <<2, 1>>
  /\ Len(report.citations) = 2
  /\ report.citations[1].url = ex.urls[1]
  /\ report.citations[2].url = ex.urls[2]
  /\ ex.urls[1] # ex.urls[2]

----------------------------------------------------------------------------
(* A progress callback that throws *)

CallbackFailed == thrown = "callback error"

\* the run stopped at a notification: what was logged is what a complete run
\* logs up to a notification that was not delivered
StoppedAtNotification ==
  /\ pc = "Error" /\ progressCallback
  /\ IsPrefix(log, CanonicalLog)
  /\ Len(log) < Len(CanonicalLog)
  /\ CanonicalLog[Len(log) + 1].t = "notify"

\* a stage begins only after its start notification was delivered
StageAfterItsNotification ==
  progressCallback =>
    \A i \in 1..Len(log) :
      log[i].t = "begin" => i > 1 /\ log[i - 1] = Notified(StartNote(log[i].what))

\* a failed run does nothing more
ErrorIsFinal ==
  pc = "Error" => UNCHANGED <<pc, log, thrown, calls, queries, searchResults,
                              extractedContent, analysis, report, outputPaths>>

\* C37: research() awaits each progress callback before it continues with
\* the next step; if the callback throws or rejects, the run aborts with that
\* error and no later stage runs.
C37_CallbackErrorAborts ==
  /\ [](StageAfterItsNotification /\ (CallbackFailed => StoppedAtNotification))
  /\ [][ErrorIsFinal]_vars

\* the callback threw after the search stage, before extraction began
C37_Witness ==
  /\ CallbackFailed /\ pc = "Error"
  /\ Len(log) > 0 /\ log[Len(log)] = End("Search")
  /\ ex = Idle /\ calls.fetch = 0 /\ calls.search > 0

----------------------------------------------------------------------------
(* Rendering, format by format *)

\* the for loop of the renderer ran: mkdir succeeded and every configured
\* format was attempted
FormatsAttempted ==
  /\ pc # "Idle" /\ DOMAIN env.render # {}
  /\ DOMAIN env.render = Range(config.reportFormats)

Succeeded(format) == env.render[format] = "written"

\* C38: rendering is isolated per format: a failure while writing one format
\* neither keeps the remaining formats from being written nor is raised to
\* the caller; the returned list holds exactly the paths of the formats that
\* succeeded, in configured order, so research() can complete with fewer
\* paths than formats, possibly none.
C38_FormatsIsolated ==
  FormatsAttempted =>
    /\ thrown \in {NoError, "callback error"}
    /\ pc = "Error" => CallbackFailed /\ log[Len(log)] = End("Render")
    /\ ~CallbackFailed => pc \in {"CompleteNote", "Complete"}
    /\ End("Render") \in Range(log)
    /\ [i \in 1..Len(outputPaths) |-> outputPaths[i].format]
         = SelectSeq(config.reportFormats, Succeeded)

\* both formats failed and the run completed with no path
C38_Witness ==
  /\ FormatsAttempted /\ pc = "Complete"
  /\ Len(config.reportFormats) = 2
  /\ \A f \in DOMAIN env.render : ~Succeeded(f)
  /\ outputPaths = <<>>

\* the first format failed and the second was written all the same
C38_WitnessSecondWritten ==
  /\ FormatsAttempted /\ pc = "Complete"
  /\ ~Succeeded(config.reportFormats[1]) /\ Succeeded(config.reportFormats[2])
  /\ Len(outputPaths) = 1 /\ outputPaths[1].format = config.reportFormats[2]

----------------------------------------------------------------------------
(* TelegramBot: pending topics and callbacks *)

\* this step sends the reply `kind` to the user
Answers(user, kind) ==
  /\ Len(tg'.replies) = Len(tg.replies) + 1
  /\ tg'.replies[Len(tg'.replies)] = Reply(user, kind, user)

\* this step starts a research for the user
Starts(user) == tg'.runs[user].started > tg.runs[user].started

NothingStarts == \A u \in Users : ~Starts(u)

\* a start consumes the user's pending topic; 'Topic not found' is the answer
\* to a depth callback without one and starts nothing; a preference callback
\* starts nothing and leaves every pending topic as it is
CallbackSteps ==
  \A user \in Users :
    /\ Starts(user) =>
         /\ tg.pendingResearch[user] # NoTopic
         /\ tg'.pendingResearch[user] = NoTopic
         /\ tg'.runs[user].started = tg.runs[user].started + 1
    /\ Answers(user, "topic not found") =>
         /\ tg.pendingResearch[user] = NoTopic
         /\ NothingStarts
         /\ tg'.pendingResearch = tg.pendingResearch
    /\ Answers(user, "preference saved") =>
         /\ NothingStarts
         /\ tg'.pendingResearch = tg.pendingResearch

\* no user has had more researches started than topics accepted, and a user
\* whose research is running has no pending topic
StartsWithinTopics ==
  \A user \in Users :
    /\ tg.runs[user].started <= tg.runs[user].asked
    /\ tg.pendingResearch[user] # NoTopic =>
         tg.runs[user].started < tg.runs[user].asked

\* C39: a pending topic starts at most one research: on a depth callback the
\* user's pending topic is removed before the research starts, so a second
\* depth callback without a new topic message is answered 'Topic not found'
\* and starts nothing; a preference callback never starts a research and
\* never changes the pending topic.
C39_PendingTopicStartsOnce ==
  []StartsWithinTopics /\ [][CallbackSteps]_vars

\* after one topic message and one started research, a second depth callback
\* of the same user was answered 'Topic not found'
C39_Witness ==
  /\ tg.runs[1].asked = 1 /\ tg.runs[1].started = 1
  /\ tg.pendingResearch[1] = NoTopic
  /\ Len(tg.replies) = 2
  /\ tg.replies[2] = Reply(1, "topic not found", 1)

\* the race of run r is settled by whichever comes first: research() resolves,
\* research() rejects, or the 180000 ms timer fires
RaceSettles(r) ==
  \/ \E paths \in PathSets, completeSent \in BOOLEAN :
       PipelineResolves(r, paths, completeSent)
  \/ PipelineRejects(r)
  \/ TimeoutFires(r)

\* the handler with its timers: a timer that was armed does fire unless the
\* pipeline settles first, so the race of every run is eventually settled
SpecHandlerFair ==
  Init /\ [][HandlerNext]_vars /\ \A r \in 1..MaxRuns : WF_vars(RaceSettles(r))

\* the session of the chat holds run r as its research in progress
Holds(chat, r) == bot.sessions[chat].currentResearch = r

Released(chat) == bot.sessions[chat].currentResearch = NoResearch

\* C40: every research started by the chat handler eventually releases the
\* session: whenever a session holds a run as its research in progress, the
\* session's currentResearch is eventually cleared, so that a later topic
\* message of that chat is accepted.
C40_SessionEventuallyReleased ==
  \A chat \in SessionChats, r \in 1..MaxRuns : Holds(chat, r) ~> Released(chat)

\* the same for the runs whose executeResearch was entered
C40_ExecutedRunReleases ==
  \A chat \in SessionChats, r \in 1..MaxRuns :
    (Holds(chat, r) /\ bot.runs[r].handler # "notStarted") ~> Released(chat)

\* a session holds a run whose 'Starting research' message was not sent:
\* executeResearch was never entered, no timer is armed
C40_HeldWithoutRace ==
  \E chat \in SessionChats, r \in RunIds :
    Holds(chat, r) /\ bot.runs[r].handler = "notStarted"

====
